---- MODULE Spec2Model ----
(***************************************************************************)
(* Verification model of atcoder_search.                                   *)
(*                                                                         *)
(* Part 1: the generation pipeline GenerateDocument::generate              *)
(* (atcoder_search_libs/src/indexing.rs; the same code is repeated in      *)
(* atcoder_search/src/modules/generator.rs).  One main task reads the row  *)
(* stream and spawns one producer task per row; the producers send their   *)
(* documents through a bounded tokio mpsc channel to one saver, which runs *)
(* on the blocking pool (spawn_blocking) and writes doc-<suffix>.json      *)
(* files.                                                                  *)
(*                                                                         *)
(* Part 2: the query parameter builder EDisMaxQueryBuilder                 *)
(* (atcoder_search_libs/src/solr/query.rs).                                *)
(*                                                                         *)
(* Part 3: the search requests: the three to_query implementations         *)
(* (backend handlers/problem.rs and handlers/user.rs, and the older        *)
(* atcoder_search modules/models/request.rs), their request extractors and *)
(* their handlers search_problem, search_user and search_with_qs.          *)
(*                                                                         *)
(* Part 4: the library functions and commands around them: sanitize,       *)
(* FullTextExtractor::extract, the ExpandField derive, post_documents, the *)
(* crawlers' save, the range facet conversion and rate_to_color.           *)
(***************************************************************************)
EXTENDS Integers, Sequences, FiniteSets, TLC

\* ------------------------------------------------------------------ bounds
\* Largest number of rows the row source yields.
MaxRows == 3

\* Largest chunk_size passed to generate.
MaxChunk == 2

\* Largest number of builder calls made on one EDisMaxQueryBuilder.
MaxCalls == 3

\* Largest number of facet names in one search request.
MaxFacets == 2

\* Largest number of values of one term filter of a search request.
MaxValues == 2

\* Largest length of a string passed to sanitize (the two longer strings of
\* SanExamples apart).
MaxLen == 3

\* Largest number of sections in one language wrapper, and outside the
\* wrappers, of an HTML document.
MaxSections == 1

\* Largest number of fields of a record type that derives ExpandField.
MaxFields == 2

\* Largest number of suffixes declared on one field.
MaxSuffixes == 2

\* Largest number of JSON files in the directory post_documents reads.
MaxFiles == 3

\* Largest number of records in the batch passed to a crawler's save.
MaxBatch == 3

\* Largest number of buckets of an engine range facet.
MaxBuckets == 3

\* The ratings passed to rate_to_color reach up to band MaxBand (400 each).
MaxBand == 10

VARIABLES
    \* ---- inputs of one run of generate, fixed by Init
    chunk_size,   \* the chunk_size argument (>= 1: channel(0) panics)
    rows,         \* the row stream: per row, "ok" or "bad" (to_document fails)
    streamErr,    \* TRUE: after the rows the stream yields Err(sqlx::Error)
    readOk,       \* FALSE: read_rows() itself returns Err
    sink,         \* "working" or "faulty" (File::create / write may fail)
    \* ---- the main task (the body of generate)
    pc,           \* "read_rows", "loop", "join", "await", "returned"
    result,       \* "none" until generate returns, then "Ok" or "Err"
    next,         \* index of the next row try_next yields
    tx,           \* TRUE while generate's own Sender is alive
    tasks,        \* per row: "unspawned", "spawned", "sending", "done", "panicked"
    joined,       \* tasks whose JoinHandle the join loop has consumed
    \* ---- the channel
    queue,        \* buffered documents (row ids), oldest first
    \* ---- the saver (spawn_blocking closure)
    saver,        \* "queued", "recv", "flush", "final", "finished", "panicked", "cancelled"
    suffix,       \* the saver's counter
    documents,    \* the saver's current batch
    files,        \* the save directory: suffix -> [docs, complete]
    flushLog,     \* the suffixes of the files created, in creation order
    \* ---- the query builder
    params,       \* EDisMaxQueryBuilder.params
    facet_enable, \* EDisMaxQueryBuilder.facet_enable
    calls,        \* the builder calls made so far, in call order
    builder,      \* "absent", "open", or "built" once build() consumed it
    query,        \* the Vec<(String, String)> build() returned
    \* ---- one search request
    handler,      \* "search_problem", "search_user" or "search_with_qs"
    request,      \* the query string received, as its search-parameter struct
    rpc,          \* "idle", "to_query", "returned", "received", "rejected",
                  \* "extracted", "select", "responded", "panicked"
    tq,           \* the locals and the result of the to_query call
    select_calls, \* the number of select requests sent to the engine
    status,       \* the HTTP status answered (0: none yet)
    message,      \* the message field of the response body
    log,          \* the lines written with tracing::error!
    \* ---- one call of sanitize
    sanitizer,    \* "query" (solr/query.rs) or "parser" (solr/parser.rs)
    san_s,        \* the argument s, a sequence of characters
    sanitized,    \* None until the call returns, then Some(characters)
    \* ---- one call of FullTextExtractor::extract
    html,         \* the document: its og:url meta tag, wrappers and sections
    extracted,    \* None until the call returns, then Some(the Result)
    \* ---- one call of the derived ExpandField::expand
    record,       \* the fields of self: ident, type, declared suffixes, value
    expanded,     \* None until the call returns, then Some(the JSON object)
    \* ---- one call of PostDocument::post_documents
    save_dir,     \* the directory: readable or not, and its JSON files, each
                  \* "ok", "unopenable" (File::open fails) or "rejected" (post fails)
    optimize,     \* the optimize argument
    post_pc,      \* "idle", "read_dir", "spawn", "join", "rollback", "finalize", "returned"
    post_tasks,   \* per spawned task: "running", "done" or "panicked"
    post_joined,  \* the tasks whose JoinHandle tasks.next() has yielded
    requests,     \* the update requests sent to the engine, in order
    post_result,  \* "none" until post_documents returns, then "Ok" or "Err"
    \* ---- one call of a crawler's save
    crawler,      \* "UserCrawler", "ContestCrawler" or "DifficultyCrawler"
    batch,        \* the records: per record "ok" or "bad" (its MERGE fails)
    database,     \* whether pool.begin() and COMMIT succeed
    save_pc,      \* "idle", "begin", "loop", "rollback", "returned"
    save_tx,      \* the transaction: "none", "open", "committed", "rolled_back"
    executed,     \* the records whose MERGE ran inside the transaction
    store,        \* the records of the batch the database holds for good
    save_result,  \* "none" until save returns, then "Ok" or "Err"
    \* ---- one conversion of an engine range facet
    solr_facet,   \* the SolrRangeFacet<i64>: counts, start, end, gap
    facet_count,  \* None until from() returns, then Some(the RangeFacetCount)
    \* ---- one call of rate_to_color
    rate,         \* the argument
    color         \* None until the call returns, then Some(the colour)

genVars == <<chunk_size, rows, streamErr, readOk, sink, pc, result, next, tx,
             tasks, joined, queue, saver, suffix, documents, files, flushLog>>
qbVars == <<params, facet_enable, calls, builder, query>>
rqVars == <<handler, request, rpc, tq, select_calls, status, message, log>>
sanVars == <<sanitizer, san_s, sanitized>>
exVars == <<html, extracted>>
efVars == <<record, expanded>>
pdVars == <<save_dir, optimize, post_pc, post_tasks, post_joined, requests, post_result>>
crVars == <<crawler, batch, database, save_pc, save_tx, executed, store, save_result>>
rfVars == <<solr_facet, facet_count>>
rcVars == <<rate, color>>
libVars == <<sanVars, exVars, efVars, pdVars, crVars, rfVars, rcVars>>
\* What a library function leaves alone: everything but its own variables.
notSan == <<genVars, qbVars, rqVars, exVars, efVars, pdVars, crVars, rfVars, rcVars>>
notEx == <<genVars, qbVars, rqVars, sanVars, efVars, pdVars, crVars, rfVars, rcVars>>
notEf == <<genVars, qbVars, rqVars, sanVars, exVars, pdVars, crVars, rfVars, rcVars>>
notPd == <<genVars, qbVars, rqVars, sanVars, exVars, efVars, crVars, rfVars, rcVars>>
notCr == <<genVars, qbVars, rqVars, sanVars, exVars, efVars, pdVars, rfVars, rcVars>>
notRf == <<genVars, qbVars, rqVars, sanVars, exVars, efVars, pdVars, crVars, rcVars>>
notRc == <<genVars, qbVars, rqVars, sanVars, exVars, efVars, pdVars, crVars, rfVars>>
vars == <<genVars, qbVars, rqVars, libVars>>

\* ------------------------------------------------------------ helpers
RowIds == 1..Len(rows)

CeilDiv(a, b) == (a + b - 1) \div b

RECURSIVE SeqSum(_)
SeqSum(s) == IF s = <<>> THEN 0 ELSE Head(s) + SeqSum(Tail(s))

Range(s) == {s[i] : i \in 1..Len(s)}

\* ------------------------------------------------------------ the channel
\* tokio::sync::mpsc::channel(2 * chunk_size)
Capacity == 2 * chunk_size

\* A Sender is alive: generate's own tx, or the clone a running task holds.
SendersAlive ==
    tx \/ \E p \in RowIds : tasks[p] \in {"spawned", "sending"}

\* The Receiver lives inside the saver closure; it is dropped when the
\* closure returns, panics, or is dropped unrun.
RxAlive == saver \in {"queued", "recv", "flush", "final"}

\* tx.send(document).await gets a permit only while the buffer has room.
\* (HasPermitUnbounded: the faulty variant, an unbounded channel.)
HasPermitUnbounded(q) == TRUE
HasPermit(q) == Len(q) < Capacity

\* ------------------------------------------------------------ the saver
\* documents.len() >= chunk_size
BatchFull(docs) == Len(docs) >= chunk_size

\* documents.clear()
\* (ClearedKeep: the faulty variant, the batch is not cleared after a flush.)
ClearedKeep(docs) == docs
Cleared(docs) == <<>>

\* if !documents.is_empty() { ... } after the receive loop
\* (AfterCloseSkip: the faulty variant, the last partial batch is dropped.)
AfterCloseSkip(docs) == "finished"
AfterClose(docs) == IF docs # <<>> THEN "final" ELSE "finished"

\* What File::create followed by serde_json::to_writer_pretty can do.
SinkOutcomes ==
    IF sink = "working" THEN {"ok"} ELSE {"ok", "create_failed", "write_failed"}

\* File::create(doc-<name>.json) truncates or creates; the write fills it.
WriteFile(name, docs, complete) ==
    [f \in DOMAIN files \cup {name} |->
        IF f = name THEN [docs |-> docs, complete |-> complete] ELSE files[f]]

\* saver.abort() on a spawn_blocking task: no effect once the closure runs;
\* a closure still waiting for a blocking thread may be dropped unrun.
Abort(s) == IF s = "queued" THEN {"queued", "cancelled"} ELSE {s}

\* match row.to_document() { Ok(document) => .., Err(e) => panic!(..) }
\* (TransformedAlways: the faulty variant, a failed row is enqueued anyway.)
TransformedAlways(kind) == "sending"
Transformed(kind) == IF kind = "ok" THEN "sending" ELSE "panicked"

\* ------------------------------------------------------------ the join loop
\* What awaiting a task's JoinHandle yields.
\* (JoinResultLenient: the faulty variant, a panicked task is not noticed.)
JoinResultLenient(st) == "Ok"
JoinResult(st) == IF st = "panicked" THEN "Err" ELSE "Ok"

\* What saver.await yields.
SaverResult(s) == IF s = "finished" THEN "Ok" ELSE "Err"

\* mem::drop(tx) after the row loop
\* (TxAfterDropKept: the faulty variant, generate keeps its Sender.)
TxAfterDropKept == TRUE
TxAfterDrop == FALSE

\* ------------------------------------------------------------ initial states
\* The row sources: up to MaxRows rows, each transformable or not, the stream
\* ending normally or with an error item (nothing after an error item is read).
RowSources == UNION {[1..k -> {"ok", "bad"}] : k \in 0..MaxRows}

\* ------------------------------------------------------- request data
\* Option<T>: None is the empty sequence, Some(v) the one-element sequence.
None == <<>>
Some(v) == <<v>>
UnwrapOr(o, d) == IF o = None THEN d ELSE o[1]

\* u32 values are kept in two 16-bit limbs, so that products up to 2^32 and
\* their wrap-around are computed exactly.
Limb == 65536
U32Of(n) == [hi |-> n \div Limb, lo |-> n % Limb]

\* A search-parameter struct with every field absent (Default::default()).
NoRequest ==
    [wellFormed |-> TRUE, keyword |-> None, limit |-> None, page |-> None,
     filter |-> None, sort |-> None, facet |-> None]

\* to_query has not been called.
NoTq ==
    [outcome |-> "none", rows |-> U32Of(0), start |-> U32Of(0), overflow |-> FALSE,
     keyword |-> "", sort |-> "", fq |-> <<>>, facet_params |-> <<>>,
     facet |-> "", query |-> <<>>]

\* No search request is being served while generate runs or a builder is used.
RqIdle ==
    /\ handler = "search_problem"
    /\ request = NoRequest
    /\ rpc = "idle"
    /\ tq = NoTq
    /\ select_calls = 0
    /\ status = 0
    /\ message = ""
    /\ log = <<>>

\* No sanitize call is in progress.
SanIdle ==
    /\ sanitizer = "query"
    /\ san_s = <<>>
    /\ sanitized = None

\* An HTML document with no meta tag, no wrapper and no section.
NoHtml == [meta |-> None, ja |-> None, en |-> None, sections |-> <<>>]

\* No extract call is in progress.
ExIdle ==
    /\ html = NoHtml
    /\ extracted = None

\* No expand call is in progress.
EfIdle ==
    /\ record = <<>>
    /\ expanded = None

\* No post_documents call is in progress.
PdIdle ==
    /\ save_dir = [readable |-> TRUE, files |-> <<>>]
    /\ optimize = FALSE
    /\ post_pc = "idle"
    /\ post_tasks = <<>>
    /\ post_joined = {}
    /\ requests = <<>>
    /\ post_result = "none"

\* No save call is in progress.
CrIdle ==
    /\ crawler = "ContestCrawler"
    /\ batch = <<>>
    /\ database = [begin |-> TRUE, commit |-> TRUE]
    /\ save_pc = "idle"
    /\ save_tx = "none"
    /\ executed = {}
    /\ store = {}
    /\ save_result = "none"

\* No range facet is being converted.
RfIdle ==
    /\ solr_facet = [counts |-> <<>>, start |-> 0, end |-> 0, gap |-> 0]
    /\ facet_count = None

\* No rate_to_color call is in progress.
RcIdle ==
    /\ rate = 0
    /\ color = None

\* None of the library functions is running.
LibIdle == SanIdle /\ ExIdle /\ EfIdle /\ PdIdle /\ CrIdle /\ RfIdle /\ RcIdle

\* No query builder exists while generate runs.
QbIdle ==
    /\ params = <<>>
    /\ facet_enable = FALSE
    /\ calls = <<>>
    /\ builder = "absent"
    /\ query = <<>>

\* The state when generate has created the channel and spawned the saver
\* (indexing.rs lines 117-176), for every input.
GenInit ==
    /\ chunk_size \in 1..MaxChunk
    /\ sink \in {"working", "faulty"}
    /\ \/ readOk = TRUE /\ rows \in RowSources /\ streamErr \in BOOLEAN
       \/ readOk = FALSE /\ rows = <<>> /\ streamErr = FALSE
    /\ pc = "read_rows"
    /\ result = "none"
    /\ next = 1
    /\ tx = TRUE
    /\ tasks = [p \in RowIds |-> "unspawned"]
    /\ joined = {}
    /\ queue = <<>>
    /\ saver = "queued"
    /\ suffix = 0
    /\ documents = <<>>
    /\ files = <<>>
    /\ flushLog = <<>>

Init == GenInit /\ QbIdle /\ RqIdle /\ LibIdle

\* No generate call is in progress while a query is built.
GenIdle ==
    /\ chunk_size = 1
    /\ sink = "working"
    /\ readOk = TRUE
    /\ rows = <<>>
    /\ streamErr = FALSE
    /\ pc = "returned"
    /\ result = "none"
    /\ next = 1
    /\ tx = FALSE
    /\ tasks = <<>>
    /\ joined = {}
    /\ queue = <<>>
    /\ saver = "finished"
    /\ suffix = 0
    /\ documents = <<>>
    /\ files = <<>>
    /\ flushLog = <<>>

\* ------------------------------------------------------------ the main task
inputs == <<chunk_size, rows, streamErr, readOk, sink>>
saverVars == <<saver, suffix, documents, files, flushLog>>

\* let mut stream = self.read_rows().await?;
ReadRows ==
    /\ pc = "read_rows"
    /\ IF readOk
         THEN pc' = "loop" /\ UNCHANGED <<result, tx>>
         ELSE pc' = "returned" /\ result' = "Err" /\ tx' = FALSE
    /\ UNCHANGED <<inputs, next, tasks, joined, queue, saverVars, qbVars, rqVars, libVars>>

\* try_next yields Some(row): clone tx, spawn the producer task, push it.
SpawnTask ==
    /\ pc = "loop"
    /\ next <= Len(rows)
    /\ tasks' = [tasks EXCEPT ![next] = "spawned"]
    /\ next' = next + 1
    /\ UNCHANGED <<inputs, pc, result, tx, joined, queue, saverVars, qbVars, rqVars, libVars>>

\* try_next yields Err: `?` returns it; tx and the JoinHandles are dropped,
\* the spawned tasks and the saver keep running detached.
StreamError ==
    /\ pc = "loop"
    /\ next > Len(rows)
    /\ streamErr
    /\ pc' = "returned"
    /\ result' = "Err"
    /\ tx' = FALSE
    /\ UNCHANGED <<inputs, next, tasks, joined, queue, saverVars, qbVars, rqVars, libVars>>

\* try_next yields None: the loop ends and mem::drop(tx) runs.
DropTx ==
    /\ pc = "loop"
    /\ next > Len(rows)
    /\ ~streamErr
    /\ tx' = TxAfterDrop
    /\ pc' = "join"
    /\ UNCHANGED <<inputs, result, next, tasks, joined, queue, saverVars, qbVars, rqVars, libVars>>

\* tasks.next().await yields a finished task (FuturesUnordered: in completion
\* order). Ok: continue. Err: saver.abort() and return the error.
JoinTask(p) ==
    /\ pc = "join"
    /\ p \in RowIds \ joined
    /\ tasks[p] \in {"done", "panicked"}
    /\ IF JoinResult(tasks[p]) = "Ok"
         THEN /\ joined' = joined \cup {p}
              /\ UNCHANGED <<pc, result, saver, queue>>
         ELSE /\ pc' = "returned"
              /\ result' = "Err"
              /\ saver' \in Abort(saver)
              /\ queue' = IF saver' = "cancelled" THEN <<>> ELSE queue
              /\ UNCHANGED joined
    /\ UNCHANGED <<inputs, next, tx, tasks, suffix, documents, files, flushLog, qbVars, rqVars, libVars>>

\* tasks.next().await yields None: every task was joined.
JoinDone ==
    /\ pc = "join"
    /\ joined = RowIds
    /\ pc' = "await"
    /\ UNCHANGED <<inputs, result, next, tx, tasks, joined, queue, saverVars, qbVars, rqVars, libVars>>

\* match saver.await { Ok(_) => Ok(()), Err(e) => Err(..) }
AwaitSaver ==
    /\ pc = "await"
    /\ saver \in {"finished", "panicked", "cancelled"}
    /\ pc' = "returned"
    /\ result' = SaverResult(saver)
    /\ UNCHANGED <<inputs, next, tx, tasks, joined, queue, saverVars, qbVars, rqVars, libVars>>

Main == ReadRows \/ SpawnTask \/ StreamError \/ DropTx
           \/ (\E p \in RowIds : JoinTask(p)) \/ JoinDone \/ AwaitSaver

\* ------------------------------------------------------------ producer tasks
\* row.to_document(): Ok(document), or Err and the task panics.
ToDocument(p) ==
    /\ tasks[p] = "spawned"
    /\ tasks' = [tasks EXCEPT ![p] = Transformed(rows[p])]
    /\ UNCHANGED <<inputs, pc, result, next, tx, joined, queue, saverVars, qbVars, rqVars, libVars>>

\* tx.send(document).await.expect(..): waits for room in the buffer; fails,
\* and the task panics, when the Receiver is gone.
Send(p) ==
    /\ tasks[p] = "sending"
    /\ IF RxAlive
         THEN /\ HasPermit(queue)
              /\ queue' = Append(queue, p)
              /\ tasks' = [tasks EXCEPT ![p] = "done"]
         ELSE /\ tasks' = [tasks EXCEPT ![p] = "panicked"]
              /\ UNCHANGED queue
    /\ UNCHANGED <<inputs, pc, result, next, tx, joined, saverVars, qbVars, rqVars, libVars>>

Producer(p) == ToDocument(p) \/ Send(p)

\* ------------------------------------------------------------ the saver task
\* A blocking-pool thread picks the closure up.
SaverStart ==
    /\ saver = "queued"
    /\ saver' = "recv"
    /\ UNCHANGED <<inputs, pc, result, next, tx, tasks, joined, queue,
                   suffix, documents, files, flushLog, qbVars, rqVars, libVars>>

\* rx.blocking_recv() yields Some(document): suffix += 1; documents.push(..)
SaverRecv ==
    /\ saver = "recv"
    /\ queue # <<>>
    /\ suffix' = suffix + 1
    /\ documents' = Append(documents, Head(queue))
    /\ queue' = Tail(queue)
    /\ saver' = IF BatchFull(documents') THEN "flush" ELSE "recv"
    /\ UNCHANGED <<inputs, pc, result, next, tx, tasks, joined, files, flushLog, qbVars, rqVars, libVars>>

\* rx.blocking_recv() yields None: buffer empty and every Sender dropped.
SaverClosed ==
    /\ saver = "recv"
    /\ queue = <<>>
    /\ ~SendersAlive
    /\ saver' = AfterClose(documents)
    /\ UNCHANGED <<inputs, pc, result, next, tx, tasks, joined, queue,
                   suffix, documents, files, flushLog, qbVars, rqVars, libVars>>

\* File::create(doc-<suffix>.json), to_writer_pretty, documents.clear();
\* either failure panics the saver, which drops rx and the batch.
WriteUnit(outcome, after) ==
    /\ outcome \in SinkOutcomes
    /\ CASE outcome = "ok" ->
              /\ files' = WriteFile(suffix, documents, TRUE)
              /\ flushLog' = Append(flushLog, suffix)
              /\ documents' = Cleared(documents)
              /\ saver' = after
              /\ UNCHANGED queue
         [] outcome = "write_failed" ->
              /\ files' = WriteFile(suffix, documents, FALSE)
              /\ flushLog' = Append(flushLog, suffix)
              /\ documents' = <<>>
              /\ saver' = "panicked"
              /\ queue' = <<>>
         [] outcome = "create_failed" ->
              /\ documents' = <<>>
              /\ saver' = "panicked"
              /\ queue' = <<>>
              /\ UNCHANGED <<files, flushLog>>
    /\ UNCHANGED <<inputs, pc, result, next, tx, tasks, joined, suffix, qbVars, rqVars, libVars>>

\* the flush inside the receive loop (lines 132-152)
SaverFlush ==
    /\ saver = "flush"
    /\ \E outcome \in SinkOutcomes : WriteUnit(outcome, "recv")

\* the flush of the last partial batch (lines 155-175)
SaverFinalFlush ==
    /\ saver = "final"
    /\ \E outcome \in SinkOutcomes : WriteUnit(outcome, "finished")

Saver == SaverStart \/ SaverRecv \/ SaverClosed \/ SaverFlush \/ SaverFinalFlush

\* ------------------------------------------------------------ query builder
\* EDisMaxQueryBuilder (solr/query.rs). A parameter is a pair <<name, value>>.

\* self.params.push((name, value))
\* (PushedReplacing: the faulty variant, a map-like set that overwrites the
\* pair of the same name.)
PushedReplacing(ps, name, value) ==
    IF \E i \in 1..Len(ps) : ps[i][1] = name
      THEN [i \in 1..Len(ps) |-> IF ps[i][1] = name THEN <<name, value>> ELSE ps[i]]
      ELSE Append(ps, <<name, value>>)
Pushed(ps, name, value) == Append(ps, <<name, value>>)

\* let v = v.to_string(); if !v.is_empty() { self.params.push((name, v)) }
PushedUnlessEmpty(ps, name, value) ==
    IF value # "" THEN Pushed(ps, name, value) ELSE ps

\* The arguments the builder methods are called with.
SortArgs == {"score desc", "difficulty asc"}
StartArgs == {0, 10}
RowsArgs == {20}
FqArgs == {"", "name:alice", "{!collapse field=grade}"}
FlArgs == {"", "id,name,grade"}
QArgs == {"", "foo"}
OpArgs == {"AND", "OR"}
\* FieldFacetQueryParameter values: the field and the optional prefix.
FacetArgs == {[field |-> "category", prefix |-> "none"],
              [field |-> "category", prefix |-> "A"]}

\* FieldFacetQueryParameter::build (only the field and the prefix are set)
FieldFacetBuild(f) ==
    <<<<"facet.field", f.field>>>>
      \o (IF f.prefix # "none"
            THEN <<<<"f." \o f.field \o ".facet.prefix", f.prefix>>>>
            ELSE <<>>)

\* EDisMaxQueryBuilder::new()
\* (NewBuilderEmpty: the faulty variant, a builder that starts with no pair.)
NewBuilderEmpty == <<>>
NewBuilder == <<<<"defType", "edismax">>>>

QbInit ==
    /\ params = NewBuilder
    /\ facet_enable = FALSE
    /\ calls = <<>>
    /\ builder = "open"
    /\ query = <<>>

QInit == GenIdle /\ QbInit /\ RqIdle /\ LibIdle

\* A builder method is called on a builder that build() has not consumed.
Call(m, arg) ==
    /\ builder = "open"
    /\ Len(calls) < MaxCalls
    /\ calls' = Append(calls, [m |-> m, arg |-> arg])
    /\ UNCHANGED <<builder, query, genVars, rqVars, libVars>>

QSort ==
    \E v \in SortArgs :
        /\ Call("sort", v)
        /\ params' = Pushed(params, "sort", v)
        /\ UNCHANGED facet_enable

QStart ==
    \E n \in StartArgs :
        /\ Call("start", ToString(n))
        /\ params' = Pushed(params, "start", ToString(n))
        /\ UNCHANGED facet_enable

QRows ==
    \E n \in RowsArgs :
        /\ Call("rows", ToString(n))
        /\ params' = Pushed(params, "rows", ToString(n))
        /\ UNCHANGED facet_enable

QFq ==
    \E v \in FqArgs :
        /\ Call("fq", v)
        /\ params' = PushedUnlessEmpty(params, "fq", v)
        /\ UNCHANGED facet_enable

QFl ==
    \E v \in FlArgs :
        /\ Call("fl", v)
        /\ params' = PushedUnlessEmpty(params, "fl", v)
        /\ UNCHANGED facet_enable

QQ ==
    \E v \in QArgs :
        /\ Call("q", v)
        /\ params' = PushedUnlessEmpty(params, "q", v)
        /\ UNCHANGED facet_enable

QOp ==
    \E o \in OpArgs :
        /\ Call("q.op", o)
        /\ params' = Pushed(params, "q.op", o)
        /\ UNCHANGED facet_enable

QDebug ==
    /\ Call("debug", "all")
    /\ params' = Pushed(Pushed(params, "debug", "all"),
                        "debug.explain.structured", "true")
    /\ UNCHANGED facet_enable

QFacet ==
    \E f \in FacetArgs :
        /\ Call("facet", f.field)
        /\ params' = (IF facet_enable THEN params ELSE Pushed(params, "facet", "true"))
                        \o FieldFacetBuild(f)
        /\ facet_enable' = TRUE

\* build(self) returns self.params and consumes the builder.
QBuild ==
    /\ builder = "open"
    /\ builder' = "built"
    /\ query' = params
    /\ UNCHANGED <<params, facet_enable, calls, genVars, rqVars, libVars>>

QNext ==
    \/ QSort
    \/ QStart
    \/ QRows
    \/ QFq
    \/ QFl
    \/ QQ
    \/ QOp
    \/ QDebug
    \/ QFacet
    \/ QBuild

QSpec == QInit /\ [][QNext]_vars

\* ============================================================ search requests
\* A string the code only compares or copies is a TLA+ string.  A string whose
\* characters the code examines (sanitize, starts_with, slicing) is a sequence
\* of characters, and Str is the string it spells.
RECURSIVE Str(_)
Str(cs) == IF cs = <<>> THEN "" ELSE Head(cs) \o Str(Tail(cs))

\* Itertools::join and [String]::join
RECURSIVE Join(_, _)
Join(ss, sep) ==
    IF ss = <<>> THEN ""
    ELSE IF Len(ss) = 1 THEN ss[1]
    ELSE ss[1] \o sep \o Join(Tail(ss), sep)

\* s.nfkc(): a compatibility character becomes its plain form.  The one
\* compatibility character of the inputs is U+FF21 (fullwidth A).
Nfkc(c) == IF c = "U+FF21" THEN "A" ELSE c

\* The one-character alternatives of SOLR_SPECIAL_CHARACTERS.
SpecialChars ==
    {"+", "-", "!", "(", ")", "{", "}", "[", "]", "^", "\"", "~", "*", "?", ":", "/"}

\* (MatchLenChars: the faulty variant, which knows no AND and no OR.)
MatchLenChars(cs) ==
    IF cs = <<>> THEN 0
    ELSE IF Head(cs) \in SpecialChars THEN 1
    ELSE IF Len(cs) >= 2 /\ SubSeq(cs, 1, 2) \in {<<"&", "&">>, <<"|", "|">>} THEN 2
    ELSE 0

\* The length of the match of SOLR_SPECIAL_CHARACTERS at the head of cs
\* (0: no match): one special character, "&&", "||", "OR" or "AND".
MatchLen(cs) ==
    IF cs = <<>> THEN 0
    ELSE IF Head(cs) \in SpecialChars THEN 1
    ELSE IF Len(cs) >= 2 /\ SubSeq(cs, 1, 2) \in {<<"&", "&">>, <<"|", "|">>, <<"O", "R">>}
      THEN 2
    ELSE IF Len(cs) >= 3 /\ SubSeq(cs, 1, 3) = <<"A", "N", "D">> THEN 3
    ELSE 0

\* replace_all(.., r"\$0"): every match, left to right, gets a backslash.
RECURSIVE Escaped(_)
Escaped(cs) ==
    IF cs = <<>> THEN <<>>
    ELSE LET n == MatchLen(cs)
         IN IF n = 0
              THEN <<Head(cs)>> \o Escaped(Tail(cs))
              ELSE <<"\\">> \o SubSeq(cs, 1, n) \o Escaped(SubSeq(cs, n + 1, Len(cs)))

sanitize(s) == Str(Escaped([i \in 1..Len(s) |-> Nfkc(s[i])]))

\* ---- u32 arithmetic
\* a * b of two limbs, as <<high limb, low limb>>.
Mul16(a, b) ==
    LET t1 == a * (b \div 256)
        t0 == a * (b % 256)
        low == (t1 % 256) * 256 + t0
    IN  [hi |-> (t1 \div 256) + (low \div Limb), lo |-> low % Limb]

\* page - 1 on u32: the wrapped value and whether the subtraction overflowed.
Pred(a) ==
    IF a.hi = 0 /\ a.lo = 0
      THEN [value |-> [hi |-> Limb - 1, lo |-> Limb - 1], overflow |-> TRUE]
    ELSE IF a.lo = 0
      THEN [value |-> [hi |-> a.hi - 1, lo |-> Limb - 1], overflow |-> FALSE]
    ELSE [value |-> [hi |-> a.hi, lo |-> a.lo - 1], overflow |-> FALSE]

\* a * b on u32: the wrapped value and whether the product overflowed.
Mul(a, b) ==
    LET p0 == Mul16(a.lo, b.lo)
        p1 == Mul16(a.hi, b.lo)
        p2 == Mul16(a.lo, b.hi)
        mid == p0.hi + p1.lo + p2.lo
    IN  [value |-> [hi |-> mid % Limb, lo |-> p0.lo],
         overflow |-> \/ (a.hi # 0 /\ b.hi # 0)
                      \/ p1.hi # 0
                      \/ p2.hi # 0
                      \/ mid >= Limb]

\* u32::to_string
RECURSIVE Decimal(_)
Decimal(a) ==
    IF a.hi = 0 THEN ToString(a.lo)
    ELSE LET low == (a.hi % 10) * Limb + a.lo
         IN  Decimal([hi |-> a.hi \div 10, lo |-> low \div 10]) \o ToString(low % 10)

\* ---- the three pipelines
Handlers == {"search_problem", "search_user", "search_with_qs"}

\* VALID_SORT_OPTIONS of the handler's module
VALID_SORT_OPTIONS(h) ==
    IF h = "search_user"
      THEN {"-birth_year", "-highest_rating", "-join_count", "-rank", "-rating", "-wins",
            "birth_year", "highest_rating", "join_count", "rank", "rating", "wins"}
      ELSE {"start_at", "-start_at", "difficulty", "-difficulty", "-score"}

\* problem.rs: the facet name => the field counted
FACET_FIELDS == [category |-> "category", difficulty |-> "color"]

\* user.rs
VALID_RANGE_FACET_FIELDS ==
    {"birth_year", "highest_rating", "join_count", "rank", "rating", "wins"}
VALID_TERM_FACET_FIELDS == {"color", "highest_color", "affiliation", "country", "crown"}

\* The facet names validate_facet_fields accepts.
VALID_FACET_FIELDS(h) ==
    IF h = "search_user" THEN VALID_RANGE_FACET_FIELDS \cup VALID_TERM_FACET_FIELDS
    ELSE IF h = "search_problem" THEN DOMAIN FACET_FIELDS
    ELSE {"category", "difficulty"}

\* ---- facets
\* The json!({...}) entry to_query inserts for one requested facet name, or
\* None when the name resolves to nothing.
FacetEntry(h, name) ==
    IF h = "search_problem" THEN
        IF name \in DOMAIN FACET_FIELDS
          THEN Some([type |-> "terms", field |-> FACET_FIELDS[name], limit |-> -1,
                     mincount |-> 0, sort |-> "index",
                     domain |-> [excludeTags |-> <<name>>]])
          ELSE None
    ELSE IF h = "search_user" THEN
        IF name \in VALID_TERM_FACET_FIELDS
          THEN Some([type |-> "terms", field |-> name, limit |-> -1, mincount |-> 0,
                     domain |-> [excludeTags |-> <<name>>]])
        ELSE IF name \in VALID_RANGE_FACET_FIELDS
          THEN Some([type |-> "range", field |-> name, start |-> 0, end |-> 4000,
                     gap |-> 400, other |-> "all",
                     domain |-> [excludeTags |-> <<name>>]])
        ELSE None
    ELSE
        IF name = "category"
          THEN Some([type |-> "terms", field |-> "category", limit |-> -1,
                     mincount |-> 0, domain |-> [excludeTags |-> <<"category">>]])
        ELSE IF name = "difficulty"
          THEN Some([type |-> "range", field |-> "difficulty", start |-> 0,
                     end |-> 4000, gap |-> 400, other |-> "all",
                     domain |-> [excludeTags |-> <<"difficulty">>]])
        ELSE None

\* BTreeMap::insert
\* (InsertedNothing: the faulty variant, which drops the entry.)
InsertedNothing(map, k, v) == map
Inserted(map, k, v) == [x \in DOMAIN map \cup {k} |-> IF x = k THEN v ELSE map[x]]

\* for field in facet.iter() { ... facet_params.insert(field, json!(...)) ... }
RECURSIVE FacetParams(_, _, _)
FacetParams(h, names, map) ==
    IF names = <<>> THEN map
    ELSE LET e == FacetEntry(h, Head(names))
         IN  FacetParams(h, Tail(names),
                         IF e = None THEN map ELSE Inserted(map, Head(names), e[1]))

\* The iteration order of BTreeMap<&str, _>: the keys in byte order.
FacetKeyOrder ==
    <<"affiliation", "birth_year", "category", "color", "country", "crown",
      "difficulty", "highest_color", "highest_rating", "join_count", "rank",
      "rating", "wins">>

\* serde_json: an object's members in key order (serde_json::Map is a BTreeMap).
JsonKeys ==
    <<"domain", "end", "field", "gap", "limit", "mincount", "other", "sort",
      "start", "type">>
Quoted(s) == "\"" \o s \o "\""
JsonObject(members) == "{" \o Join(members, ",") \o "}"
JsonValue(e, k) ==
    IF k = "domain"
      THEN "{\"excludeTags\":["
             \o Join([i \in 1..Len(e.domain.excludeTags) |-> Quoted(e.domain.excludeTags[i])], ",")
             \o "]}"
    ELSE IF k \in {"end", "gap", "limit", "mincount", "start"} THEN ToString(e[k])
    ELSE Quoted(e[k])
EntryJson(e) ==
    LET ks == SelectSeq(JsonKeys, LAMBDA k : k \in DOMAIN e)
    IN  JsonObject([i \in 1..Len(ks) |-> Quoted(ks[i]) \o ":" \o JsonValue(e, ks[i])])

\* serde_json::to_string(&facet_params)
SerdeToString(map) ==
    LET ks == SelectSeq(FacetKeyOrder, LAMBDA k : k \in DOMAIN map)
    IN  JsonObject([i \in 1..Len(ks) |-> Quoted(ks[i]) \o ":" \o EntryJson(map[ks[i]])])

\* ---- filters
\* RangeFilterParameter::to_range
\* (to_range_closed: the faulty variant, which closes the range with "]".)
to_range_closed(r) ==
    IF r.from = None /\ r.to = None THEN None
    ELSE Some("[" \o (IF r.from = None THEN "*" ELSE ToString(r.from[1]))
                  \o " TO "
                  \o (IF r.to = None THEN "*" ELSE ToString(r.to[1])) \o "]")
to_range(r) ==
    IF r.from = None /\ r.to = None THEN None
    ELSE Some("[" \o (IF r.from = None THEN "*" ELSE ToString(r.from[1]))
                  \o " TO "
                  \o (IF r.to = None THEN "*" ELSE ToString(r.to[1])) \o "}")

\* The filters of the handler's filter struct, in the order its to_query
\* tests them.
FilterFields(h) ==
    IF h = "search_user"
      THEN <<[name |-> "rating", kind |-> "range"],
             [name |-> "color", kind |-> "term"],
             [name |-> "highest_rating", kind |-> "range"],
             [name |-> "highest_color", kind |-> "term"],
             [name |-> "affiliation", kind |-> "term"],
             [name |-> "birth_year", kind |-> "range"],
             [name |-> "country", kind |-> "term"],
             [name |-> "crown", kind |-> "term"],
             [name |-> "join_count", kind |-> "range"],
             [name |-> "rank", kind |-> "range"],
             [name |-> "wins", kind |-> "range"]>>
      ELSE <<[name |-> "category", kind |-> "term"],
             [name |-> "difficulty", kind |-> "range"]>>
FilterNames(h) == {FilterFields(h)[i].name : i \in 1..Len(FilterFields(h))}

\* format!("{{!tag=X}}X:({})", values.iter().map(|v| sanitize(v)).join(" OR "));
\* FilterParameters::to_query of request.rs joins the values as they are.
TermClause(h, name, values) ==
    "{!tag=" \o name \o "}" \o name \o ":("
      \o Join([i \in 1..Len(values) |->
                  IF h = "search_with_qs" THEN Str(values[i]) ELSE sanitize(values[i])],
              " OR ")
      \o ")"

\* format!("{{!tag=X}}X:{}", range)
RangeClause(name, range) == "{!tag=" \o name \o "}" \o name \o ":" \o range

\* FilterParameter::to_query / FilterParameters::to_query
RECURSIVE FilterClauses(_, _, _)
FilterClauses(h, f, fields) ==
    IF fields = <<>> THEN <<>>
    ELSE LET fd == Head(fields)
             v == f[fd.name]
             clause ==
                IF v = None THEN <<>>
                ELSE IF fd.kind = "term" THEN <<TermClause(h, fd.name, v[1])>>
                ELSE LET r == to_range(v[1])
                     IN  IF r = None THEN <<>> ELSE <<RangeClause(fd.name, r[1])>>
         IN  clause \o FilterClauses(h, f, Tail(fields))
filter_to_query(h, f) == FilterClauses(h, f, FilterFields(h))

\* ---- to_query
\* the sort local of to_query
SortOf(h, p) ==
    IF p.sort = None
      THEN (IF h = "search_problem" THEN "problem_id asc" ELSE "")
    ELSE LET s == p.sort[1]
         IN  IF s # <<>> /\ Head(s) = "-"
               THEN Str(Tail(s)) \o " desc"
               ELSE Str(s) \o " asc"

\* field_list() of the handler's response document (derive(FieldList))
field_list(h) ==
    IF h = "search_user"
      THEN "user_name,rating,color,highest_rating,highest_color,affiliation,birth_year,country,crown,join_count,rank,wins"
    ELSE IF h = "search_problem"
      THEN "problem_id,problem_title,problem_url,contest_id,contest_title,contest_url,difficulty,color,start_at,duration,rate_change,category"
    ELSE "problem_id,problem_title,problem_url,contest_id,contest_title,contest_url,difficulty,start_at,duration,rate_change,category"

\* the argument of .qf(..)
QueryFields(h) == IF h = "search_user" THEN "user_name" ELSE "text_ja text_en text_1gram"

\* EDisMaxQueryBuilder::facet(String) of the handlers' builder: the serialized
\* facet configuration becomes the one json.facet parameter; no facet
\* request, no parameter.
FacetPushed(ps, facet) == PushedUnlessEmpty(ps, "json.facet", facet)

\* EDisMaxQueryBuilder::fq(&Vec<String>) of the handlers' builder: one fq
\* parameter per clause.
RECURSIVE FqPushed(_, _)
FqPushed(ps, fq) ==
    IF fq = <<>> THEN ps
    ELSE FqPushed(PushedUnlessEmpty(ps, "fq", Head(fq)), Tail(fq))

\* to_query(&self): its locals and the list it returns.  The u32 product
\* start = (page - 1) * rows is kept with its overflow flag.
to_query(h, p) ==
    LET nrows == UnwrapOr(p.limit, U32Of(20))
        page == UnwrapOr(p.page, U32Of(1))
        before == Pred(page)
        product == Mul(before.value, nrows)
        start == product.value
        keyword == IF p.keyword = None THEN "" ELSE sanitize(p.keyword[1])
        sort == SortOf(h, p)
        fq == IF p.filter = None THEN <<>> ELSE filter_to_query(h, p.filter[1])
        facet_params == IF p.facet = None THEN <<>> ELSE FacetParams(h, p.facet[1], <<>>)
        facet == IF p.facet = None THEN "" ELSE SerdeToString(facet_params)
        q1 == FacetPushed(NewBuilder, facet)
        q2 == PushedUnlessEmpty(q1, "fl", field_list(h))
        q3 == FqPushed(q2, fq)
        q4 == Pushed(q3, "q.op", "AND")
        q5 == PushedUnlessEmpty(q4, "q", keyword)
        q6 == PushedUnlessEmpty(q5, "q.alt", "*:*")
        q7 == PushedUnlessEmpty(q6, "qf", QueryFields(h))
        q8 == Pushed(q7, "rows", Decimal(nrows))
        q9 == Pushed(q8, "sort", sort)
        q10 == Pushed(q9, "sow", "true")
        q11 == Pushed(q10, "start", Decimal(start))
    IN  [outcome |-> "returned", rows |-> nrows, start |-> start,
         overflow |-> before.overflow \/ product.overflow,
         keyword |-> keyword, sort |-> sort, fq |-> fq,
         facet_params |-> facet_params, facet |-> facet, query |-> q11]

\* An arithmetic overflow panics where overflow checks are compiled in (the
\* dev profile) and wraps where they are not (the release profile).
Panicked == [NoTq EXCEPT !.outcome = "panicked", !.overflow = TRUE]
ToQueryOutcomes(h, p) ==
    LET r == to_query(h, p)
    IN  IF r.overflow THEN {r, Panicked} ELSE {r}

\* ---- validation
\* #[validate(range(min = .., max = ..))] and #[validate(range(min = ..))] on u32
InRange(a, min, max) == a.hi = 0 /\ a.lo >= min /\ a.lo <= max
AtLeast(a, min) == a.hi > 0 \/ a.lo >= min

\* value.validate() of the derived Validate: keyword length, limit and page
\* ranges, validate_sort_field, validate_facet_fields.  The filter field
\* carries no validate attribute.
\* (ValidLenient: the faulty variant, which accepts every request.)
ValidLenient(h, p) == TRUE
Valid(h, p) ==
    /\ p.keyword = None \/ Len(p.keyword[1]) <= 200
    /\ p.limit = None \/ InRange(p.limit[1], 1, 200)
    /\ p.page = None \/ AtLeast(p.page[1], 1)
    /\ p.sort = None \/ Str(p.sort[1]) \in VALID_SORT_OPTIONS(h)
    /\ p.facet = None
         \/ \A i \in 1..Len(p.facet[1]) : p.facet[1][i] \in VALID_FACET_FIELDS(h)

\* ---- the requests served
KeywordArgs == {None, Some(<<"U+FF21", ":", "b">>)}
LimitArgs == {None} \cup {Some(U32Of(n)) : n \in {0, 20, 200, 201}}
PageArgs == {None} \cup {Some(U32Of(n)) : n \in {0, 3, 21474838}}

\* Sort keys: a descending and an ascending key of the allow-list, and "score",
\* which no allow-list holds.
SortKeys(h) ==
    {None, Some(<<"s", "c", "o", "r", "e">>)}
      \cup (IF h = "search_user"
              THEN {Some(<<"-", "r", "a", "t", "i", "n", "g">>), Some(<<"r", "a", "n", "k">>)}
              ELSE {Some(<<"-", "d", "i", "f", "f", "i", "c", "u", "l", "t", "y">>),
                    Some(<<"s", "t", "a", "r", "t", "_", "a", "t">>)})

\* Facet names: a term facet and a second facet of the pipeline, and a name the
\* pipeline does not know.
FacetNamesOf(h) ==
    IF h = "search_user" THEN {"color", "rating", "category"}
    ELSE {"category", "difficulty", "color"}
FacetLists(h) ==
    {None} \cup {Some(s) : s \in UNION {[1..k -> FacetNamesOf(h)] : k \in 0..MaxFacets}}

TermValues == {<<"A", "B", "C">>, <<"A", "G", "C", "-", "L", "i", "k", "e">>}
TermArgs ==
    {None} \cup {Some(vs) : vs \in UNION {[1..k -> TermValues] : k \in 1..MaxValues}}
RangeArgs ==
    {None} \cup {Some([from |-> a, to |-> b]) : a \in {None, Some(800)},
                                                 b \in {None, Some(1200)}}

\* Filter structs: every combination of the first term filter and the first
\* range filter, every filter alone, and every filter at once.
KindOf(h, n) ==
    FilterFields(h)[CHOOSE i \in 1..Len(FilterFields(h)) : FilterFields(h)[i].name = n].kind
OneValue(kind) ==
    IF kind = "term" THEN Some(<<<<"A", "B", "C">>>>)
    ELSE Some([from |-> Some(800), to |-> None])
FirstTerm(h) == IF h = "search_user" THEN "color" ELSE "category"
FirstRange(h) == IF h = "search_user" THEN "rating" ELSE "difficulty"
FilterStructs(h) ==
    {[n \in FilterNames(h) |->
        IF n = FirstTerm(h) THEN t ELSE IF n = FirstRange(h) THEN r ELSE None]
        : t \in TermArgs, r \in RangeArgs}
    \cup {[n \in FilterNames(h) |-> IF n = m THEN OneValue(KindOf(h, n)) ELSE None]
            : m \in FilterNames(h)}
    \cup {[n \in FilterNames(h) |-> OneValue(KindOf(h, n))]}
FilterArgs(h) == {None} \cup {Some(f) : f \in FilterStructs(h)}

\* The parameter structs to_query is called with directly: every facet list
\* with no filter and with every filter, and every filter struct with no facet
\* and with two facets.
AllFilters(h) == Some([n \in FilterNames(h) |-> OneValue(KindOf(h, n))])
TqRequests(h) ==
    LET paged(filters, facets) ==
            [wellFormed : {TRUE}, keyword : KeywordArgs,
             limit : {None, Some(U32Of(20)), Some(U32Of(200))},
             page : {None, Some(U32Of(3)), Some(U32Of(21474838))},
             filter : filters,
             sort : SortKeys(h) \ {Some(<<"s", "c", "o", "r", "e">>)},
             facet : facets]
    IN  paged({None, AllFilters(h)}, FacetLists(h))
          \cup paged(FilterArgs(h), {None, Some(<<FirstTerm(h), FirstRange(h)>>)})

\* The query strings the HTTP handlers receive: those that deserialize, and
\* one that does not.
HttpRequests(h) ==
    [wellFormed : {TRUE}, keyword : {None}, limit : LimitArgs, page : PageArgs,
     filter : {None, AllFilters(h)}, sort : SortKeys(h), facet : FacetLists(h)]
    \cup {[NoRequest EXCEPT !.wellFormed = FALSE]}

\* ---- to_query called directly
TqInit ==
    /\ GenIdle /\ QbIdle /\ LibIdle
    /\ handler \in Handlers
    /\ request \in TqRequests(handler)
    /\ rpc = "to_query"
    /\ tq = NoTq
    /\ select_calls = 0
    /\ status = 0
    /\ message = ""
    /\ log = <<>>

ToQueryReturns ==
    /\ rpc = "to_query"
    /\ tq' = to_query(handler, request)
    /\ tq' \in ToQueryOutcomes(handler, request)
    /\ rpc' = "returned"
    /\ UNCHANGED <<handler, request, select_calls, status, message, log, genVars, qbVars, libVars>>

ToQueryPanics ==
    /\ rpc = "to_query"
    /\ Panicked \in ToQueryOutcomes(handler, request)
    /\ tq' = Panicked
    /\ rpc' = "panicked"
    /\ UNCHANGED <<handler, request, select_calls, status, message, log, genVars, qbVars, libVars>>

TqNext == ToQueryReturns \/ ToQueryPanics
TqSpec == TqInit /\ [][TqNext]_vars

\* ---- the HTTP handlers
\* The errors core.select returns, as their Display strings.
SelectErrors ==
    {"failed to request to solr core",
     "unexpected error [400 Bad Request] cause [undefined field text_ja]"}

HInit ==
    /\ GenIdle /\ QbIdle /\ LibIdle
    /\ handler \in Handlers
    /\ request \in HttpRequests(handler)
    /\ rpc = "received"
    /\ tq = NoTq
    /\ select_calls = 0
    /\ status = 0
    /\ message = ""
    /\ log = <<>>

\* Validated*Parameter::from_request_parts: deserialize, then validate; either
\* failure is the rejection (400, error body) and the handler is not called.
FromRequestParts ==
    /\ rpc = "received"
    /\ IF ~request.wellFormed
         THEN /\ rpc' = "rejected"
              /\ status' = 400
              /\ message' = "invalid format query string"
              /\ log' = Append(log, "Parsing error")
       ELSE IF ~Valid(handler, request)
         THEN /\ rpc' = "rejected"
              /\ status' = 400
              /\ message' = "Validation error"
              /\ log' = Append(log, "Validation error")
       ELSE /\ rpc' = "extracted"
            /\ UNCHANGED <<status, message, log>>
    /\ UNCHANGED <<handler, request, tq, select_calls, genVars, qbVars, libVars>>

\* The handler up to its await: core.select(&params.to_query())
SearchSelect ==
    /\ rpc = "extracted"
    /\ tq' = to_query(handler, request)
    /\ tq' \in ToQueryOutcomes(handler, request)
    /\ select_calls' = select_calls + 1
    /\ rpc' = "select"
    /\ UNCHANGED <<handler, request, status, message, log, genVars, qbVars, libVars>>

\* to_query panics inside the handler: the task unwinds, no response is built.
SearchPanic ==
    /\ rpc = "extracted"
    /\ Panicked \in ToQueryOutcomes(handler, request)
    /\ tq' = Panicked
    /\ rpc' = "panicked"
    /\ UNCHANGED <<handler, request, select_calls, status, message, log, genVars, qbVars, libVars>>

\* Ok(res): the handler answers 200 with the result.
SelectOk ==
    /\ rpc = "select"
    /\ rpc' = "responded"
    /\ status' = 200
    /\ message' = ""
    /\ UNCHANGED <<handler, request, tq, select_calls, log, genVars, qbVars, libVars>>

\* Err(e): search_problem and search_user log the cause and answer 500 with
\* "unexpected error"; search_with_qs answers 500 with e.to_string().
SelectErr ==
    /\ rpc = "select"
    /\ \E e \in SelectErrors :
          IF handler = "search_with_qs"
            THEN /\ message' = e
                 /\ log' = log
            ELSE /\ message' = "unexpected error"
                 /\ log' = Append(log, "request failed cause: " \o e)
    /\ rpc' = "responded"
    /\ status' = 500
    /\ UNCHANGED <<handler, request, tq, select_calls, genVars, qbVars, libVars>>

HNext ==
    \/ FromRequestParts
    \/ SearchSelect
    \/ SearchPanic
    \/ SelectOk
    \/ SelectErr

HSpec == HInit /\ [][HNext]_vars

\* ------------------------------------------------------------- sanitize
\* s.nfkc().collect::<String>()
Normalized(cs) == [i \in 1..Len(cs) |-> Nfkc(cs[i])]

\* sanitize of solr/parser.rs: the same replacement without normalisation.
sanitize_parser(cs) == Escaped(cs)

\* The characters of the strings passed to sanitize.
SanChars == {"a", " ", ":", "+", "&", "|", "O", "R", "A", "N", "D", "U+FF21", "\\"}

\* The keywords "foo OR bar" and "a:b".
SanExamples ==
    {<<"f", "o", "o", " ", "O", "R", " ", "b", "a", "r">>, <<"a", ":", "b">>}

SanArgs == UNION {[1..k -> SanChars] : k \in 0..MaxLen} \cup SanExamples

SanInit ==
    /\ GenIdle /\ QbIdle /\ RqIdle /\ ExIdle /\ EfIdle /\ PdIdle /\ CrIdle /\ RfIdle /\ RcIdle
    /\ sanitizer \in {"query", "parser"}
    /\ san_s \in SanArgs
    /\ sanitized = None

\* sanitize(s) of solr/query.rs
SanitizeQuery ==
    /\ sanitizer = "query"
    /\ sanitized = None
    /\ sanitized' = Some(Escaped(Normalized(san_s)))
    /\ Str(sanitized'[1]) = sanitize(san_s)
    /\ UNCHANGED <<sanitizer, san_s, notSan>>

\* sanitize(s) of solr/parser.rs
SanitizeParser ==
    /\ sanitizer = "parser"
    /\ sanitized = None
    /\ sanitized' = Some(sanitize_parser(san_s))
    /\ UNCHANGED <<sanitizer, san_s, notSan>>

SanNext == SanitizeQuery \/ SanitizeParser
SanSpec == SanInit /\ [][SanNext]_vars

\* ------------------------------------------- FullTextExtractor::extract
\* A text node is a sequence of pieces, its white space being pieces of their
\* own; text.trim() drops the white space at both ends.
WhiteSpace == {" ", "\n"}

RECURSIVE TrimStart(_)
TrimStart(cs) ==
    IF cs # <<>> /\ Head(cs) \in WhiteSpace THEN TrimStart(Tail(cs)) ELSE cs

RECURSIVE TrimEnd(_)
TrimEnd(cs) ==
    IF cs # <<>> /\ cs[Len(cs)] \in WhiteSpace
      THEN TrimEnd(SubSeq(cs, 1, Len(cs) - 1))
      ELSE cs

Trim(cs) == TrimEnd(TrimStart(cs))

\* The nodes of the tree: elements, text nodes and comments.
Element(name, children) ==
    [kind |-> "element", name |-> name, text |-> <<>>, children |-> children]
Text(pieces) ==
    [kind |-> "text", name |-> "", text |-> pieces, children |-> <<>>]
Comment ==
    [kind |-> "comment", name |-> "", text |-> <<>>, children |-> <<>>]

\* fn dfs: the text of an element, without its pre and h3 children, with
\* blanks around var, every text node trimmed.
RECURSIVE dfs(_)
dfs(element) ==
    LET child(i) == element.children[i]
        piece(i) ==
            IF child(i).kind = "element"
              THEN IF child(i).name \in {"pre", "h3"} THEN <<>>
                   ELSE IF child(i).name = "var" THEN <<" " \o dfs(child(i)) \o " ">>
                   ELSE <<dfs(child(i))>>
            ELSE IF child(i).kind = "text" THEN <<Str(Trim(child(i).text))>>
            ELSE <<>>
        RECURSIVE collect(_)
        collect(i) ==
            IF i > Len(element.children) THEN <<>> ELSE piece(i) \o collect(i + 1)
    IN  Join(collect(1), "")

\* str::contains
Contains(cs, pat) ==
    \E i \in 1..(Len(cs) - Len(pat) + 1) : SubSeq(cs, i, i + Len(pat) - 1) = pat

\* The marker words of the two languages: U+554F U+984C, and "Statement".
MarkerJa == <<"U+554F", "U+984C">>
MarkerEn == <<"S", "t", "a", "t", "e", "m", "e", "n", "t">>

\* The headings of the sections: no h3 at all, the Japanese "problem
\* statement" and "input", and "Problem Statement".
H3Texts ==
    {None,
     Some(<<"U+554F", "U+984C", "U+6587">>),
     Some(<<"U+5165", "U+529B">>),
     Some(<<"P", "r", "o", "b", "l", "e", "m", " ">> \o MarkerEn)}

\* A section element with the given heading: its h3, a text, a var, a
\* comment, a pre block and a closing text.
Section(h3) ==
    Element("section",
        (IF h3 = None THEN <<>> ELSE <<Element("h3", <<Text(h3[1])>>)>>)
        \o <<Text(<<"\n", " ", "Given", " ">>),
             Element("var", <<Text(<<"N">>)>>),
             Comment,
             Element("pre", <<Text(<<"1 2">>)>>),
             Text(<<" ", ".", "\n">>)>>)

\* section.select(&self.h3).next() and h3.text().next(): the heading text of
\* a section, None without an h3.
HeadingOf(section) ==
    LET hs == {i \in 1..Len(section.children) :
                  section.children[i].kind = "element" /\ section.children[i].name = "h3"}
    IN  IF hs = {} THEN None
        ELSE LET h == section.children[CHOOSE i \in hs : \A j \in hs : i <= j]
             IN  IF h.children = <<>> THEN None ELSE Some(h.children[1].text)

\* Url::parse(content): a content without a scheme is no absolute URL.
UrlParse(content) ==
    IF content.scheme = ""
      THEN [ok |-> FALSE, error |-> "relative URL without a base"]
      ELSE [ok |-> TRUE, error |-> ""]

\* The content attributes of the og:url meta tag: the canonical URL of a
\* problem, a path alone, and the empty string.
UrlContents ==
    {[scheme |-> "https", path |-> <<"contests", "abc001", "tasks", "abc001_a">>],
     [scheme |-> "", path |-> <<"contests", "abc001", "tasks", "abc001_a">>],
     [scheme |-> "", path |-> <<>>]}

\* The og:url meta tag: absent, without a content attribute, or with one.
MetaTags == {None, Some(None)} \cup {Some(Some(c)) : c \in UrlContents}

\* fn get_problem_id: Ok(Some(id)), Ok(None) or the error of Url::parse.
get_problem_id(doc) ==
    IF doc.meta = None \/ doc.meta[1] = None
      THEN [ok |-> TRUE, error |-> "", id |-> None]
    ELSE LET content == doc.meta[1][1]
             url == UrlParse(content)
         IN  IF ~url.ok THEN [ok |-> FALSE, error |-> url.error, id |-> None]
             ELSE [ok |-> TRUE, error |-> "",
                   id |-> Some(IF content.path = <<>> THEN ""
                               ELSE content.path[Len(content.path)])]

\* The loop over the sections: the text of every section whose heading
\* contains the marker word, in document order.
RECURSIVE Scan(_, _)
Scan(sections, marker) ==
    IF sections = <<>> THEN <<>>
    ELSE LET h3 == HeadingOf(Head(sections))
         IN  (IF h3 # None /\ Contains(h3[1], marker) THEN <<dfs(Head(sections))>> ELSE <<>>)
               \o Scan(Tail(sections), marker)

\* html.select(&self.section): every section of the document, in document
\* order (the sections outside the wrappers come first in these documents).
AllSections(doc) ==
    doc.sections \o (IF doc.ja = None THEN <<>> ELSE doc.ja[1])
                 \o (IF doc.en = None THEN <<>> ELSE doc.en[1])

\* pub fn extract(&self, html: &str) -> Result<(Vec<String>, Vec<String>)>
extract(doc) ==
    LET id == get_problem_id(doc)
        problem_id == UnwrapOr(id.id, "[No ID]")
        text_ja == IF doc.ja # None THEN Scan(doc.ja[1], MarkerJa)
                   ELSE Scan(AllSections(doc), MarkerJa)
        text_en == IF doc.en # None THEN Scan(doc.en[1], MarkerEn) ELSE <<>>
    IN  IF ~id.ok
          THEN [ok |-> FALSE, error |-> id.error, text_ja |-> <<>>, text_en |-> <<>>,
                debug |-> <<>>]
          ELSE [ok |-> TRUE, error |-> "", text_ja |-> text_ja, text_en |-> text_en,
                debug |-> [i \in 1..Len(text_ja) |->
                              "Retrieve japanese problem statement. [" \o problem_id \o "]"]
                          \o [i \in 1..Len(text_en) |->
                                "Retrieve english problem statement. [" \o problem_id \o "]"]]

SectionLists == UNION {[1..k -> {Section(h) : h \in H3Texts}] : k \in 0..MaxSections}
Wrappers == {None} \cup {Some(ss) : ss \in SectionLists}
Documents == [meta : MetaTags, ja : Wrappers, en : Wrappers, sections : SectionLists]

ExInit ==
    /\ GenIdle /\ QbIdle /\ RqIdle /\ SanIdle /\ EfIdle /\ PdIdle /\ CrIdle /\ RfIdle /\ RcIdle
    /\ html \in Documents
    /\ extracted = None

Extract ==
    /\ extracted = None
    /\ extracted' = Some(extract(html))
    /\ UNCHANGED <<html, notEx>>

ExNext == Extract
ExSpec == ExInit /\ [][ExNext]_vars

\* ---------------------------------------------- ExpandField::expand
\* Two decimal digits.
Pad2(n) == IF n < 10 THEN "0" \o ToString(n) ELSE ToString(n)

\* A DateTime<Local> of May 2023 is its day, its hour and the offset of the
\* local zone in hours; the minutes and seconds are 31:28.
\* with_timezone(&Utc).to_rfc3339_opts(SecondsFormat::Secs, true)
to_rfc3339_utc(d) ==
    LET h == d.day * 24 + d.hour - d.offset
    IN  "2023-05-" \o Pad2(h \div 24) \o "T" \o Pad2(h % 24) \o ":31:28Z"

\* Serialize for DateTime<Local>: the local time with its offset.
to_rfc3339_local(d) ==
    "2023-05-" \o Pad2(d.day) \o "T" \o Pad2(d.hour) \o ":31:28+" \o Pad2(d.offset) \o ":00"

\* self.#ident inside json!: the serde value of the field (a field value is
\* its text, or its day, hour and offset when it is a DateTime).
Serialized(field) ==
    IF field.ty = "DateTime" THEN to_rfc3339_local(field.value) ELSE field.value.text

\* (SettersSuffixedOnly: the faulty variant, which drops the base key of a
\* field that has suffixes.)
SettersSuffixedOnly(field) ==
    IF field.suffixes = <<>>
      THEN <<<<field.ident, Serialized(field)>>>>
      ELSE [i \in 1..Len(field.suffixes) |->
               <<field.ident \o "__" \o field.suffixes[i], Serialized(field)>>]

\* The setters of one field: without suffixes the field under its own name
\* (a DateTime as UTC); with suffixes one ident__suffix copy per suffix and
\* then the field under its own name.
Setters(field) ==
    IF field.suffixes = <<>>
      THEN IF field.ty = "DateTime"
             THEN <<<<field.ident, to_rfc3339_utc(field.value)>>>>
             ELSE <<<<field.ident, Serialized(field)>>>>
      ELSE [i \in 1..Len(field.suffixes) |->
               <<field.ident \o "__" \o field.suffixes[i], Serialized(field)>>]
           \o <<<<field.ident, Serialized(field)>>>>

\* .flat_map(|s| s): the setters of all fields, in field order.
RECURSIVE AllSetters(_)
AllSetters(fields) ==
    IF fields = <<>> THEN <<>> ELSE Setters(Head(fields)) \o AllSetters(Tail(fields))

\* serde_json::json!({ #(#setters)* }): the object the setters build.
RECURSIVE JsonOf(_, _)
JsonOf(setters, map) ==
    IF setters = <<>> THEN map
    ELSE JsonOf(Tail(setters), Inserted(map, Head(setters)[1], Head(setters)[2]))

\* fn expand(&self) -> serde_json::Value
expand(fields) == JsonOf(AllSetters(fields), <<>>)

\* The record types: fields named as those of ProblemIndex, start_at being
\* the DateTime<Local>, with suffix lists over text_ja and text_en.
Idents == {"problem_title", "statement_ja", "start_at"}
TypeOf(ident) == IF ident = "start_at" THEN "DateTime" ELSE "String"
ValuesOfType(ty) ==
    IF ty = "DateTime"
      THEN {[text |-> "", day |-> 21, hour |-> 12, offset |-> 9],
            [text |-> "", day |-> 21, hour |-> 3, offset |-> 9]}
      ELSE {[text |-> t, day |-> 0, hour |-> 0, offset |-> 0] : t \in {"foo", "bar"}}
SuffixLists == UNION {[1..k -> {"text_ja", "text_en"}] : k \in 0..MaxSuffixes}
FieldsOf(ident) ==
    [ident : {ident}, ty : {TypeOf(ident)}, suffixes : SuffixLists,
     value : ValuesOfType(TypeOf(ident))]
Records ==
    {r \in UNION {[1..k -> UNION {FieldsOf(i) : i \in Idents}] : k \in 0..MaxFields} :
        \A i, j \in 1..Len(r) : i # j => r[i].ident # r[j].ident}

EfInit ==
    /\ GenIdle /\ QbIdle /\ RqIdle /\ SanIdle /\ ExIdle /\ PdIdle /\ CrIdle /\ RfIdle /\ RcIdle
    /\ record \in Records
    /\ expanded = None

Expand ==
    /\ expanded = None
    /\ expanded' = Some(expand(record))
    /\ UNCHANGED <<record, notEf>>

EfNext == Expand
EfSpec == EfInit /\ [][EfNext]_vars

\* ------------------------------------------- PostDocument::post_documents
\* The directories: unreadable, or readable with up to MaxFiles JSON files.
FileKinds == {"ok", "unopenable", "rejected"}
SaveDirs ==
    {[readable |-> FALSE, files |-> <<>>]}
      \cup {[readable |-> TRUE, files |-> fs] :
              fs \in UNION {[1..k -> FileKinds] : k \in 0..MaxFiles}}

PdInit ==
    /\ GenIdle /\ QbIdle /\ RqIdle /\ SanIdle /\ ExIdle /\ EfIdle /\ CrIdle /\ RfIdle /\ RcIdle
    /\ save_dir \in SaveDirs
    /\ optimize \in BOOLEAN
    /\ post_pc = "read_dir"
    /\ post_tasks = <<>>
    /\ post_joined = {}
    /\ requests = <<>>
    /\ post_result = "none"

\* let mut files = tokio::fs::read_dir(save_dir).await?;
ReadDir ==
    /\ post_pc = "read_dir"
    /\ IF save_dir.readable
         THEN post_pc' = "spawn" /\ UNCHANGED post_result
         ELSE post_pc' = "returned" /\ post_result' = "Err"
    /\ UNCHANGED <<save_dir, optimize, post_tasks, post_joined, requests, notPd>>

\* One round of the while let loop: the next JSON file gets its task.
PostSpawn ==
    /\ post_pc = "spawn"
    /\ Len(post_tasks) < Len(save_dir.files)
    /\ post_tasks' = Append(post_tasks, "running")
    /\ UNCHANGED <<save_dir, optimize, post_pc, post_joined, requests, post_result, notPd>>

\* files.next_entry() has no further entry.
PostSpawnDone ==
    /\ post_pc = "spawn"
    /\ Len(post_tasks) = Len(save_dir.files)
    /\ post_pc' = "join"
    /\ UNCHANGED <<save_dir, optimize, post_tasks, post_joined, requests, post_result, notPd>>

\* The body of a spawned task: open the file (panic on failure), post it
\* (panic when the engine answers with an error).  A spawned task is
\* detached: it runs whatever post_documents itself is doing.
PostTask(i) ==
    /\ i \in 1..Len(post_tasks)
    /\ post_tasks[i] = "running"
    /\ LET kind == save_dir.files[i]
       IN  /\ requests' = IF kind = "unopenable" THEN requests
                          ELSE Append(requests, <<"post", i>>)
           /\ post_tasks' = [post_tasks EXCEPT ![i] = IF kind = "ok" THEN "done" ELSE "panicked"]
    /\ UNCHANGED <<save_dir, optimize, post_pc, post_joined, post_result, notPd>>

\* (IsJoinErrorNever: the faulty variant, which takes every task for a success.)
IsJoinErrorNever(st) == FALSE

\* if let Err(e) = task: the JoinError of a task that panicked.
IsJoinError(st) == st = "panicked"

\* tasks.next().await yields a finished task; on a JoinError the rollback
\* request is sent.
JoinNext(i) ==
    /\ post_pc = "join"
    /\ i \in 1..Len(post_tasks)
    /\ i \notin post_joined
    /\ post_tasks[i] \in {"done", "panicked"}
    /\ post_joined' = post_joined \cup {i}
    /\ IF IsJoinError(post_tasks[i])
         THEN /\ requests' = Append(requests, <<"rollback", 0>>)
              /\ post_pc' = "rollback"
         ELSE UNCHANGED <<requests, post_pc>>
    /\ UNCHANGED <<save_dir, optimize, post_tasks, post_result, notPd>>

\* core.rollback().await?; return Err(anyhow::anyhow!(e)): an error either way.
RollbackReturn ==
    /\ post_pc = "rollback"
    /\ post_pc' = "returned"
    /\ post_result' = "Err"
    /\ UNCHANGED <<save_dir, optimize, post_tasks, post_joined, requests, notPd>>

\* tasks.next() is None: core.optimize() or core.commit() is sent.
Finalize ==
    /\ post_pc = "join"
    /\ post_joined = 1..Len(post_tasks)
    /\ requests' = Append(requests, <<IF optimize THEN "optimize" ELSE "commit", 0>>)
    /\ post_pc' = "finalize"
    /\ UNCHANGED <<save_dir, optimize, post_tasks, post_joined, post_result, notPd>>

\* .await?; Ok(()): the answer of the engine decides.
FinalizeReturn ==
    /\ post_pc = "finalize"
    /\ post_pc' = "returned"
    /\ post_result' \in {"Ok", "Err"}
    /\ UNCHANGED <<save_dir, optimize, post_tasks, post_joined, requests, notPd>>

PdNext ==
    \/ ReadDir
    \/ PostSpawn
    \/ PostSpawnDone
    \/ \E i \in 1..MaxFiles + 1 : PostTask(i)
    \/ \E i \in 1..MaxFiles + 1 : JoinNext(i)
    \/ RollbackReturn
    \/ Finalize
    \/ FinalizeReturn
PdSpec == PdInit /\ [][PdNext]_vars

\* --------------------------------------------------- the crawlers' save
Crawlers == {"UserCrawler", "ContestCrawler", "DifficultyCrawler"}
Batches == UNION {[1..k -> {"ok", "bad"}] : k \in 0..MaxBatch}

CrInit ==
    /\ GenIdle /\ QbIdle /\ RqIdle /\ SanIdle /\ ExIdle /\ EfIdle /\ PdIdle /\ RfIdle /\ RcIdle
    /\ crawler \in Crawlers
    /\ batch \in Batches
    /\ database \in [begin : BOOLEAN, commit : BOOLEAN]
    /\ save_pc = "begin"
    /\ save_tx = "none"
    /\ executed = {}
    /\ store = {}
    /\ save_result = "none"

\* let mut tx = self.pool.begin().await (with ? or bail!)
Begin ==
    /\ save_pc = "begin"
    /\ IF database.begin
         THEN save_tx' = "open" /\ save_pc' = "loop" /\ UNCHANGED save_result
         ELSE save_result' = "Err" /\ save_pc' = "returned" /\ UNCHANGED save_tx
    /\ UNCHANGED <<crawler, batch, database, executed, store, notCr>>

\* One round of the for loop: the MERGE of the next record is executed in
\* the transaction; a failure leads to the rollback branch.
Execute ==
    /\ save_pc = "loop"
    /\ Cardinality(executed) < Len(batch)
    /\ LET i == Cardinality(executed) + 1
       IN  IF batch[i] = "ok"
             THEN executed' = executed \cup {i} /\ UNCHANGED save_pc
             ELSE save_pc' = "rollback" /\ UNCHANGED executed
    /\ UNCHANGED <<crawler, batch, database, save_tx, store, save_result, notCr>>

\* tx.rollback().await?; anyhow::bail!(..)
SaveRollback ==
    /\ save_pc = "rollback"
    /\ save_tx' = "rolled_back"
    /\ save_result' = "Err"
    /\ save_pc' = "returned"
    /\ UNCHANGED <<crawler, batch, database, executed, store, notCr>>

\* Whether save of crawler c ends with tx.commit().await?: the contest and
\* the difficulty crawler do, the user crawler returns Ok(()) right away.
Commits(c) == c \in {"ContestCrawler", "DifficultyCrawler"}

\* tx.commit().await?; Ok(()): what ran in the transaction is stored, unless
\* the commit fails.
SaveCommit ==
    /\ save_pc = "loop"
    /\ Cardinality(executed) = Len(batch)
    /\ Commits(crawler)
    /\ IF database.commit
         THEN save_tx' = "committed" /\ store' = executed /\ save_result' = "Ok"
         ELSE save_tx' = "rolled_back" /\ UNCHANGED store /\ save_result' = "Err"
    /\ save_pc' = "returned"
    /\ UNCHANGED <<crawler, batch, database, executed, notCr>>

\* Ok(()) with the transaction still open: dropping a sqlx Transaction that
\* was not committed rolls it back.
SaveReturn ==
    /\ save_pc = "loop"
    /\ Cardinality(executed) = Len(batch)
    /\ ~Commits(crawler)
    /\ save_tx' = "rolled_back"
    /\ save_result' = "Ok"
    /\ save_pc' = "returned"
    /\ UNCHANGED <<crawler, batch, database, executed, store, notCr>>

CrNext == Begin \/ Execute \/ SaveRollback \/ SaveCommit \/ SaveReturn
CrSpec == CrInit /\ [][CrNext]_vars

\* ------------------------- From<SolrRangeFacet<T>> for RangeFacetCount<T>
\* Itertools::tuples() into pairs: the elements two by two, a last single
\* element being left out.
RECURSIVE Tuples(_)
Tuples(xs) ==
    IF Len(xs) < 2 THEN <<>>
    ELSE <<<<xs[1], xs[2]>>>> \o Tuples(SubSeq(xs, 3, Len(xs)))

\* fn from(facet: SolrRangeFacet<T>) -> RangeFacetCount<T>
RangeFacetCountFrom(facet) ==
    LET counts == Append(facet.counts, <<ToString(facet.end), 0>>)
        pairs == Tuples(counts)
    IN  [counts |-> [i \in 1..Len(pairs) |->
                        [begin |-> pairs[i][1][1], end |-> pairs[i][2][1],
                         count |-> pairs[i][1][2]]],
         start |-> facet.start, end |-> facet.end, gap |-> facet.gap]

\* The engine's range facets: k buckets of width gap from start, each with
\* its count, the bucket keys being the decimal bucket starts.
SolrRangeFacets ==
    {[counts |-> [i \in 1..Len(cs) |-> <<ToString(st + (i - 1) * gap), cs[i]>>],
      start |-> st, end |-> st + Len(cs) * gap, gap |-> gap] :
        cs \in UNION {[1..k -> 0..2] : k \in 0..MaxBuckets},
        st \in {0, 800}, gap \in {100, 400}}

RfInit ==
    /\ GenIdle /\ QbIdle /\ RqIdle /\ SanIdle /\ ExIdle /\ EfIdle /\ PdIdle /\ CrIdle /\ RcIdle
    /\ solr_facet \in SolrRangeFacets
    /\ facet_count = None

From ==
    /\ facet_count = None
    /\ facet_count' = Some(RangeFacetCountFrom(solr_facet))
    /\ UNCHANGED <<solr_facet, notRf>>

RfNext == From
RfSpec == RfInit /\ [][RfNext]_vars

\* ------------------------------------------------------------ rate_to_color
\* pub fn rate_to_color(rate: i32) -> String
rate_to_color(r) ==
    IF r >= 0 /\ r <= 399 THEN "gray"
    ELSE IF r >= 400 /\ r <= 799 THEN "brown"
    ELSE IF r >= 800 /\ r <= 1199 THEN "green"
    ELSE IF r >= 1200 /\ r <= 1599 THEN "cyan"
    ELSE IF r >= 1600 /\ r <= 1999 THEN "blue"
    ELSE IF r >= 2000 /\ r <= 2399 THEN "yellow"
    ELSE IF r >= 2400 /\ r <= 2799 THEN "orange"
    ELSE IF r >= 2800 /\ r <= 3199 THEN "red"
    ELSE IF r >= 3200 /\ r <= 3599 THEN "silver"
    ELSE "gold"

\* The ratings: the two ends of i32 (the lowest but one, which TLC can
\* write), the -1 the ranking scraper puts for an unparsable rating, and five
\* ratings in each band up to MaxBand.
Ratings ==
    {-2147483647, -1, 2147483647}
      \cup {b * 400 + d : b \in 0..MaxBand, d \in {0, 1, 200, 398, 399}}

RcInit ==
    /\ GenIdle /\ QbIdle /\ RqIdle /\ SanIdle /\ ExIdle /\ EfIdle /\ PdIdle /\ CrIdle /\ RfIdle
    /\ rate \in Ratings
    /\ color = None

\* let color = rate_to_color(value.rating);
RateToColor ==
    /\ color = None
    /\ color' = Some(rate_to_color(rate))
    /\ UNCHANGED <<rate, notRc>>

RcNext == RateToColor
RcSpec == RcInit /\ [][RcNext]_vars

\* ------------------------------------------------------------ specification
Next ==
    \/ ReadRows
    \/ SpawnTask
    \/ StreamError
    \/ DropTx
    \/ \E p \in RowIds : JoinTask(p)
    \/ JoinDone
    \/ AwaitSaver
    \/ \E p \in RowIds : ToDocument(p)
    \/ \E p \in RowIds : Send(p)
    \/ SaverStart
    \/ SaverRecv
    \/ SaverClosed
    \/ SaverFlush
    \/ SaverFinalFlush

Spec == Init /\ [][Next]_vars

\* The scheduler runs every ready task and the blocking pool runs the saver:
\* weak fairness of the main task, of each producer task and of the saver.
Fairness ==
    /\ WF_vars(Main)
    /\ WF_vars(Saver)
    /\ \A p \in 1..MaxRows : WF_vars(p \in RowIds /\ Producer(p))

\* generate with a readable row source and a working sink, fairly scheduled.
LiveInit == Init /\ readOk /\ sink = "working"
LiveSpec == LiveInit /\ [][Next]_vars /\ Fairness

\* ------------------------------------------------------------ measures
\* Units on the sink whose write succeeded.
CompleteUnits == {f \in DOMAIN files : files[f].complete}

\* How often row r's document occurs in the units on the sink.
Occurrences(r) ==
    SeqSum([i \in 1..Len(flushLog) |->
        IF flushLog[i] \in DOMAIN files
          THEN Cardinality({j \in 1..Len(files[flushLog[i]].docs) :
                               files[flushLog[i]].docs[j] = r})
          ELSE 0])

OkRows == {r \in RowIds : rows[r] = "ok"}

\* Documents produced by to_document and not yet written to a unit.
Sending == {p \in RowIds : tasks[p] = "sending"}
InFlight == Cardinality(Sending) + Len(queue) + Len(documents)

\* ------------------------------------------------------------ claims

\* C1: when generate returns Ok over n rows with chunk size c, the sink
\* holds exactly ceil(n / c) units (none for n = 0), each created once.
C1_UnitCount ==
    result = "Ok" =>
        /\ Cardinality(DOMAIN files) = CeilDiv(Len(rows), chunk_size)
        /\ Len(flushLog) = CeilDiv(Len(rows), chunk_size)

C1_Witness ==
    /\ result = "Ok"
    /\ Len(rows) = 3
    /\ chunk_size = 2
    /\ Cardinality(DOMAIN files) = 2

C3_NumberedFromOne ==
    /\ flushLog # <<>> => flushLog[1] = 1
    /\ \A i, j \in 1..Len(flushLog) : i < j => flushLog[i] < flushLog[j]

C5_NoWriteAfterError ==
    [][result = "Err" => (files' = files /\ flushLog' = flushLog)]_vars

\* C6 (as claimed): when only row k (k < n) fails to transform, at most
\* ceil(k / c) completely written units are on the sink and they hold only
\* documents of rows that transformed.
C6_AtMostCeilK ==
    \A k \in RowIds :
        ( /\ k < Len(rows)
          /\ rows[k] = "bad"
          /\ \A j \in RowIds \ {k} : rows[j] = "ok"
          /\ ~streamErr
          /\ sink = "working"
          /\ result = "Err" )
        => /\ Cardinality(CompleteUnits) <= CeilDiv(k, chunk_size)
           /\ \A f \in CompleteUnits : Range(files[f].docs) \subseteq OkRows

\* C6 (amended): when the transformation of some row k fails, at most
\* ceil(m / c) completely written units are on the sink, m being the number
\* of rows that transform (n - 1 when only row k fails), and every such unit
\* holds between 1 and c documents, all of rows that transformed.
C6_AtMostCeilOk ==
    \A k \in RowIds :
        rows[k] = "bad" =>
            /\ Cardinality(CompleteUnits) <= CeilDiv(Cardinality(OkRows), chunk_size)
            /\ \A f \in CompleteUnits :
                  /\ Range(files[f].docs) \subseteq OkRows
                  /\ Len(files[f].docs) \in 1..chunk_size

\* Row 1 of 3 failed and the two later rows were still flushed.
C6_Witness ==
    /\ Len(rows) = 3
    /\ rows[1] = "bad"
    /\ chunk_size = 1
    /\ result = "Err"
    /\ Cardinality(CompleteUnits) = 2

\* C7: the channel never buffers more than 2 * chunk_size documents.
C7_QueueBounded == Len(queue) <= 2 * chunk_size

\* The buffer is full and a producer holding a document waits for room.
C7_Witness ==
    /\ Len(queue) = 2 * chunk_size
    /\ Sending # {}
    /\ RxAlive

\* C8: backpressure caps the in-flight documents: once the channel is full,
\* the documents produced but not yet written number no more than the
\* channel capacity plus the saver's current batch.
C8_InFlightBounded ==
    Len(queue) = 2 * chunk_size => InFlight <= 2 * chunk_size + Len(documents)

\* C9: under fair scheduling generate returns, and returns Ok when no row
\* fails and the stream ends without an error.
C9_Terminates ==
    /\ <>(pc = "returned")
    /\ ((\A r \in RowIds : rows[r] = "ok") /\ ~streamErr)
          ~> (pc = "returned" /\ result = "Ok" /\ saver = "finished")

\* A run over three rows with chunk size 1 (channel capacity 2) that
\* returned Ok after flushing three units.
C9_Witness ==
    /\ result = "Ok"
    /\ Len(rows) = 3
    /\ chunk_size = 1
    /\ flushLog = <<1, 2, 3>>

\* ---- query builder measures
\* The values of the pairs named `name`, in their order in ps.
RECURSIVE ValuesOf(_, _)
ValuesOf(ps, name) ==
    IF ps = <<>> THEN <<>>
    ELSE (IF Head(ps)[1] = name THEN <<Head(ps)[2]>> ELSE <<>>)
            \o ValuesOf(Tail(ps), name)

\* The arguments of the calls of method m, in call order; an empty string
\* given to a method that skips empty strings is no parameter.
RECURSIVE ArgsOf(_, _)
ArgsOf(cs, m) ==
    IF cs = <<>> THEN <<>>
    ELSE (IF Head(cs).m = m /\ ~(m \in {"fq", "fl", "q"} /\ Head(cs).arg = "")
            THEN <<Head(cs).arg>> ELSE <<>>)
            \o ArgsOf(Tail(cs), m)

IsPrefix(a, b) == Len(a) <= Len(b) /\ SubSeq(b, 1, Len(a)) = a

\* C10: build returns the parameters in builder-call order: every call only
\* appends to what earlier calls accumulated, build returns exactly the
\* accumulated list, and the pairs of one name (two fq calls, say) are all
\* kept, one per call, in call order.
C10_CallOrder ==
    /\ [][builder = "open" => IsPrefix(params, params')]_vars
    /\ [](builder = "built" =>
            /\ query = params
            /\ \A m \in {"sort", "start", "rows", "fq", "fl", "q", "q.op"} :
                  ValuesOf(query, m) = ArgsOf(calls, m))

C10_Witness ==
    /\ builder = "built"
    /\ query = << <<"defType", "edismax">>, <<"start", "10">>,
                  <<"fq", "name:alice">>, <<"fq", "{!collapse field=grade}">> >>

\* The pairs of ps named `name`.
PairsNamed(ps, name) == {i \in 1..Len(ps) : ps[i][1] = name}

C12_NoCallsEmpty ==
    (builder = "built" /\ calls = <<>>) => query = <<>>

\* ---- search request measures
\* The number a u32 stands for (the inputs stay below 2^31).
Num(a) == a.hi * Limb + a.lo

\* The decimal numeral of the exact product a * b of two naturals, a < 2^31
\* and b < 10^5, computed in two halves so that no intermediate value leaves
\* the 31-bit range.
ProductDecimal(a, b) ==
    LET low == (a % 10000) * b
        high == (a \div 10000) * b + (low \div 10000)
        last == low % 10000
    IN  IF high = 0 THEN ToString(last)
        ELSE ToString(high)
               \o (IF last < 10 THEN "000" ELSE IF last < 100 THEN "00"
                   ELSE IF last < 1000 THEN "0" ELSE "")
               \o ToString(last)

\* The limit and the page of the request, with their defaults.
LimitOf(p) == IF p.limit = None THEN 20 ELSE Num(p.limit[1])
PageOf(p) == IF p.page = None THEN 1 ELSE Num(p.page[1])

\* to_query was called and has returned or panicked.
Called == rpc \in {"returned", "panicked"}

\* C13: for every search request, to_query emits rows = limit (20 when limit
\* is absent) and start = (page - 1) * rows (page = 1 when absent); stated for
\* the requests that pass validation.
C13_RowsStart ==
    (Called /\ Valid(handler, request)) =>
        /\ tq.outcome = "returned"
        /\ ValuesOf(tq.query, "rows") = <<ToString(LimitOf(request))>>
        /\ ValuesOf(tq.query, "start")
             = <<ProductDecimal(PageOf(request) - 1, LimitOf(request))>>

\* C14: a sort key with a leading '-' yields '<field> desc' with the marker
\* stripped and any other key '<field> asc'; with no sort key the problem
\* query sorts by 'problem_id asc' and the user query has no sort parameter.
C14_SortParameter ==
    rpc = "returned" =>
        IF request.sort # None
          THEN LET s == request.sort[1]
               IN  ValuesOf(tq.query, "sort")
                     = <<IF Head(s) = "-" THEN Str(Tail(s)) \o " desc"
                                           ELSE Str(s) \o " asc">>
        ELSE IF handler = "search_problem"
          THEN ValuesOf(tq.query, "sort") = <<"problem_id asc">>
        ELSE IF handler = "search_user"
          THEN ValuesOf(tq.query, "sort") = <<>>
        ELSE TRUE

\* The filters of struct f that hold a value to filter by: a term filter that
\* is present, a range filter with at least one bound.
ActiveFilters(h, f) ==
    {n \in FilterNames(h) :
        /\ f[n] # None
        /\ KindOf(h, n) = "range" => (f[n][1].from # None \/ f[n][1].to # None)}

\* '[from TO to}' with '*' for an absent bound.
RangeText(r) ==
    IF r.from # None /\ r.to # None
      THEN "[" \o ToString(r.from[1]) \o " TO " \o ToString(r.to[1]) \o "}"
    ELSE IF r.from # None THEN "[" \o ToString(r.from[1]) \o " TO *}"
    ELSE "[* TO " \o ToString(r.to[1]) \o "}"

\* C15: to_range renders '[from TO to}' with '*' for an absent bound and
\* nothing when both bounds are absent: every range filter with a bound has
\* its clause with that text among the filter-query clauses, and a range
\* filter without bounds adds no clause (the clauses are as many as the
\* filters that hold a value).
C15_ToRange ==
    (rpc = "returned" /\ request.filter # None) =>
        LET f == request.filter[1]
        IN  /\ \A n \in ActiveFilters(handler, f) :
                  KindOf(handler, n) = "range" =>
                      \E i \in 1..Len(tq.fq) :
                          tq.fq[i] = "{!tag=" \o n \o "}" \o n \o ":" \o RangeText(f[n][1])
            /\ Len(tq.fq) = Cardinality(ActiveFilters(handler, f))
            /\ \A i \in 1..Len(tq.fq) : <<"fq", tq.fq[i]>> \in Range(tq.query)

C15_Witness ==
    /\ rpc = "returned"
    /\ handler = "search_problem"
    /\ request.filter # None
    /\ request.filter[1].category # None
    /\ request.filter[1].difficulty = Some([from |-> Some(800), to |-> None])
    /\ Len(tq.fq) = 2
    /\ tq.fq[2] = "{!tag=difficulty}difficulty:[800 TO *}"

\* C16: each active filter contributes exactly one filter-query clause,
\* prefixed with the tag of its own filter name, and a term filter renders its
\* values as an OR-disjunction of sanitized values.
C16_FilterClauses ==
    (rpc = "returned" /\ request.filter # None) =>
        LET f == request.filter[1]
            expected(n) ==
                "{!tag=" \o n \o "}" \o n \o ":"
                  \o (IF KindOf(handler, n) = "range" THEN RangeText(f[n][1])
                      ELSE "(" \o Join([i \in 1..Len(f[n][1]) |-> sanitize(f[n][1][i])],
                                       " OR ") \o ")")
        IN  /\ \A n \in ActiveFilters(handler, f) :
                  Cardinality({i \in 1..Len(tq.fq) : tq.fq[i] = expected(n)}) = 1
            /\ Len(tq.fq) = Cardinality(ActiveFilters(handler, f))

\* The facet names the pipeline of handler h resolves to an entry.
Resolved(h) ==
    IF h = "search_user"
      THEN {"color", "highest_color", "affiliation", "country", "crown", "birth_year",
            "highest_rating", "join_count", "rank", "rating", "wins"}
      ELSE {"category", "difficulty"}

\* C17: at query building a facet name outside the allow-list mapping is
\* skipped without an error (to_query fails only where the start product needs
\* more than 32 bits), each resolved facet name has exactly one entry in the
\* facet configuration, and the configuration is serialized once and attached
\* as the single json.facet parameter.
C17_FacetConfiguration ==
    /\ rpc = "panicked" =>
          Len(ProductDecimal(PageOf(request) - 1, LimitOf(request))) >= 10
    /\ (rpc = "returned" /\ request.facet # None) =>
          LET names == request.facet[1]
          IN  /\ DOMAIN tq.facet_params = Range(names) \cap Resolved(handler)
              /\ tq.facet = SerdeToString(tq.facet_params)
              /\ ValuesOf(tq.query, "json.facet") = <<tq.facet>>

C17_Witness ==
    /\ rpc = "returned"
    /\ handler = "search_problem"
    /\ request.facet = Some(<<"color", "category">>)
    /\ DOMAIN tq.facet_params = {"category"}
    /\ ValuesOf(tq.query, "json.facet")
         = <<"{\"category\":{\"domain\":{\"excludeTags\":[\"category\"]},\"field\":\"category\",\"limit\":-1,\"mincount\":0,\"sort\":\"index\",\"type\":\"terms\"}}">>

\* C18: every facet entry excludes its own filter tag from its domain; every
\* term entry has the mapped field, limit -1, mincount 0 and index-order sort;
\* every range entry has the field, start 0, end 4000, gap 400 and the 'all'
\* overflow bucket.
C18_FacetEntries ==
    (rpc = "returned" /\ request.facet # None) =>
        \A name \in DOMAIN tq.facet_params :
            LET e == tq.facet_params[name]
            IN  /\ e.domain.excludeTags = <<name>>
                /\ e.type \in {"terms", "range"}
                /\ e.type = "terms" =>
                      /\ e.field = (IF handler = "search_problem" /\ name = "difficulty"
                                      THEN "color" ELSE name)
                      /\ e.limit = -1
                      /\ e.mincount = 0
                      /\ "sort" \in DOMAIN e
                      /\ e.sort = "index"
                /\ e.type = "range" =>
                      /\ e.field = name
                      /\ e.start = 0 /\ e.end = 4000 /\ e.gap = 400
                      /\ e.other = "all"

\* The requests the claim names: a facet or a sort key outside the allow-list,
\* a limit outside 1..200, a page below 1.
OutsideAllowed(h, p) ==
    \/ p.facet # None /\ \E i \in 1..Len(p.facet[1]) : p.facet[1][i] \notin Resolved(h)
    \/ p.sort # None /\ Str(p.sort[1]) \notin VALID_SORT_OPTIONS(h)
    \/ p.limit # None /\ Num(p.limit[1]) \notin 1..200
    \/ p.page # None /\ Num(p.page[1]) < 1

\* C19: a request that names a facet or a sort key outside the allow-list, a
\* limit outside 1..200 or a page below 1 is rejected by validation with a
\* 400 response carrying the validation message; no query is built for it and
\* the engine is never contacted.
C19_RejectedBeforeQuery ==
    (request.wellFormed /\ OutsideAllowed(handler, request)) =>
        /\ rpc \in {"received", "rejected"}
        /\ rpc = "rejected" => (status = 400 /\ message = "Validation error")
        /\ tq = NoTq
        /\ select_calls = 0

C19_Witness ==
    /\ rpc = "rejected"
    /\ handler = "search_user"
    /\ request.facet = Some(<<"color", "category">>)
    /\ request.sort = None /\ request.limit = None /\ request.page = None
    /\ status = 400
    /\ select_calls = 0

\* C20: when the engine select call fails, every search handler answers with
\* status 500 and the generic message, which holds no detail of the failure,
\* and the cause is written to the log.
C20_GenericEngineError ==
    (rpc = "responded" /\ status # 200) =>
        /\ status = 500
        /\ message = "unexpected error"
        /\ \E e \in SelectErrors : log = <<"request failed cause: " \o e>>

\* C28: each crawler's batch save is all-or-nothing: when save returns Ok
\* every record of the batch has been committed, and when any record fails
\* the transaction is rolled back, save returns an error and no record of the
\* batch is persisted.
C28_AllOrNothing ==
    save_pc = "returned" =>
        /\ save_result = "Ok" => store = 1..Len(batch)
        /\ save_result = "Err" => store = {}
        /\ (\E i \in 1..Len(batch) : batch[i] = "bad" /\ database.begin) =>
              /\ save_tx = "rolled_back"
              /\ save_result = "Err"
              /\ store = {}

\* C29: converting an engine range facet with k buckets yields exactly k
\* count elements in bucket order, element i having begin = the start of
\* bucket i, end = the start of bucket i+1 (the facet's end for the last
\* bucket) and count = the count of bucket i.
C29_RangeFacetCounts ==
    facet_count # None =>
        LET out == facet_count[1].counts
            k == Len(solr_facet.counts)
        IN  /\ Len(out) = k
            /\ \A i \in 1..Len(out) :
                  i <= k =>
                      /\ out[i].begin = solr_facet.counts[i][1]
                      /\ out[i].end = (IF i < k THEN solr_facet.counts[i + 1][1]
                                       ELSE ToString(solr_facet.end))
                      /\ out[i].count = solr_facet.counts[i][2]

\* ---- rate_to_color measures
\* The bands, lowest first.
Bands ==
    <<"gray", "brown", "green", "cyan", "blue", "yellow", "orange", "red", "silver", "gold">>
BandOf(c) == CHOOSE i \in 1..Len(Bands) : Bands[i] = c

\* C30: rate_to_color is monotone over the ratings: for ratings a <= b the
\* colour of a is never a higher band than the colour of b, the ratings below
\* 0 included.
C30_Monotone ==
    color # None =>
        \A a \in Ratings :
            a <= rate => BandOf(rate_to_color(a)) <= BandOf(color[1])

\* ---- sanitize measures
\* The engine-reserved tokens, as character sequences.
ReservedTokens ==
    {<<"+">>, <<"-">>, <<"&", "&">>, <<"|", "|">>, <<"!">>, <<"(">>, <<")">>,
     <<"{">>, <<"}">>, <<"[">>, <<"]">>, <<"^">>, <<"\"">>, <<"~">>, <<"*">>,
     <<"?">>, <<":">>, <<"/">>, <<"A", "N", "D">>, <<"O", "R">>}

\* The reserved tokens that start cs (at most one: no token starts another).
TokensAt(cs) ==
    {t \in ReservedTokens : Len(t) <= Len(cs) /\ SubSeq(cs, 1, Len(t)) = t}

\* out is cs with one backslash before every occurrence of a reserved token,
\* read from the left, and every other character as it is.
RECURSIVE EscapesOf(_, _)
EscapesOf(cs, out) ==
    IF cs = <<>> THEN out = <<>>
    ELSE IF TokensAt(cs) # {}
      THEN LET t == CHOOSE t \in TokensAt(cs) : TRUE
           IN  /\ Len(out) >= Len(t) + 1
               /\ out[1] = "\\"
               /\ SubSeq(out, 2, Len(t) + 1) = t
               /\ EscapesOf(SubSeq(cs, Len(t) + 1, Len(cs)),
                             SubSeq(out, Len(t) + 2, Len(out)))
    ELSE /\ out # <<>>
         /\ out[1] = cs[1]
         /\ EscapesOf(Tail(cs), Tail(out))

\* C21 (as stated): sanitize prefixes every occurrence of a reserved token of
\* its input with exactly one backslash and leaves every other character of
\* the input unchanged.
C21_SanitizeInput ==
    sanitized # None => EscapesOf(san_s, sanitized[1])

\* C21 (amended): sanitize of solr/query.rs first replaces every character by
\* its NFKC form, then prefixes every occurrence of a reserved token of the
\* normalised text with exactly one backslash and leaves every other character
\* of the normalised text unchanged; sanitize of solr/parser.rs does so on the
\* input as it is.
C21_SanitizeNormalized ==
    sanitized # None =>
        EscapesOf(IF sanitizer = "query" THEN Normalized(san_s) ELSE san_s,
                  sanitized[1])

C21_Witness ==
    /\ sanitizer = "query"
    /\ san_s = <<"f", "o", "o", " ", "O", "R", " ", "b", "a", "r">>
    /\ sanitized # None
    /\ Str(sanitized[1]) = "foo \\OR bar"

\* ---- extract measures
\* What the caller of extract receives: success or failure, and the segments.
Outcome(r) == [ok |-> r.ok, text_ja |-> r.text_ja, text_en |-> r.text_en]

\* C22: for every document that has neither a native-language wrapper nor a
\* secondary-language wrapper, extract returns two empty segment sequences
\* and never an error.
C22_NoWrapperEmpty ==
    (extracted # None /\ html.ja = None /\ html.en = None) =>
        /\ extracted[1].ok
        /\ extracted[1].text_ja = <<>>
        /\ extracted[1].text_en = <<>>

\* C23: the og:url meta tag never influences the outcome of extract: the
\* document with any other meta tag in its place gives the same success or
\* failure and the same segments.
C23_IdNoInfluence ==
    extracted # None =>
        \A meta \in MetaTags :
            Outcome(extract([html EXCEPT !.meta = meta])) = Outcome(extracted[1])

\* C24: the key set of the expanded document is the declared field names
\* together with one ident__suffix key per declared suffix; the base key is
\* present alongside its suffixed copies and every suffixed value equals the
\* base value.
C24_ExpandedKeys ==
    expanded # None =>
        LET doc == expanded[1]
        IN  /\ DOMAIN doc
                 = {record[i].ident : i \in 1..Len(record)}
                     \cup UNION {{record[i].ident \o "__" \o record[i].suffixes[j] :
                                    j \in 1..Len(record[i].suffixes)} :
                                 i \in 1..Len(record)}
            /\ \A i \in 1..Len(record) :
                  /\ record[i].ident \in DOMAIN doc
                  /\ \A j \in 1..Len(record[i].suffixes) :
                        doc[record[i].ident \o "__" \o record[i].suffixes[j]]
                          = doc[record[i].ident]

C24_Witness ==
    /\ expanded # None
    /\ Len(record) = 2
    /\ record[1].ident = "statement_ja"
    /\ record[1].suffixes = <<"text_ja", "text_en">>
    /\ record[2].ident = "start_at"
    /\ record[2].suffixes = <<>>
    /\ record[2].value = [text |-> "", day |-> 21, hour |-> 3, offset |-> 9]
    /\ DOMAIN expanded[1]
         = {"statement_ja", "statement_ja__text_ja", "statement_ja__text_en", "start_at"}
    /\ expanded[1]["start_at"] = "2023-05-20T18:31:28Z"

\* ---- post_documents measures
\* The positions of the requests of the given kinds.
Sent(kinds) == {k \in 1..Len(requests) : requests[k][1] \in kinds}

\* C25: post_documents issues its finalizing request (optimize when the flag
\* is set, otherwise commit) exactly once and only after every spawned post
\* task has completed successfully; if any post task fails it issues
\* rollback, returns an error, and issues neither commit nor optimize.
C25_FinalizeOnce ==
    /\ Cardinality(Sent({"commit", "optimize"})) <= 1
    /\ Sent({IF optimize THEN "commit" ELSE "optimize"}) = {}
    /\ post_result = "Ok" => Cardinality(Sent({"commit", "optimize"})) = 1
    /\ Sent({"commit", "optimize"}) # {} =>
          /\ Len(post_tasks) = Len(save_dir.files)
          /\ \A i \in 1..Len(post_tasks) : post_tasks[i] = "done"
    /\ (post_pc = "returned" /\ \E i \in 1..Len(post_tasks) : post_tasks[i] = "panicked") =>
          /\ Cardinality(Sent({"rollback"})) = 1
          /\ post_result = "Err"
          /\ Sent({"commit", "optimize"}) = {}

C25_Witness ==
    /\ post_pc = "returned"
    /\ post_result = "Ok"
    /\ optimize
    /\ Len(save_dir.files) = 2
    /\ requests = <<<<"post", 2>>, <<"post", 1>>, <<"optimize", 0>>>>

\* C26: when a post task fails, the rollback request is sent only after every
\* other post task has finished, so no document file reaches the engine after
\* the rollback.
C26_RollbackLast ==
    /\ post_pc = "rollback" => \A i \in 1..Len(post_tasks) : post_tasks[i] # "running"
    /\ \A r \in Sent({"rollback"}) : \A k \in Sent({"post"}) : k < r

\* C27: for every request that passes validation, start = (page - 1) * rows
\* stays within the unsigned 32-bit range: to_query neither wraps around nor
\* panics.
C27_NoOverflow ==
    (Called /\ Valid(handler, request)) =>
        /\ rpc # "panicked"
        /\ ~tq.overflow

TypeOK ==
    /\ chunk_size \in 1..MaxChunk
    /\ Len(rows) <= MaxRows
    /\ pc \in {"read_rows", "loop", "join", "await", "returned"}
    /\ result \in {"none", "Ok", "Err"}
    /\ tx \in BOOLEAN
    /\ \A p \in RowIds :
          tasks[p] \in {"unspawned", "spawned", "sending", "done", "panicked"}
    /\ joined \subseteq RowIds
    /\ Range(queue) \subseteq RowIds
    /\ saver \in {"queued", "recv", "flush", "final", "finished", "panicked", "cancelled"}
    /\ suffix \in 0..Len(rows)
    /\ builder \in {"absent", "open", "built"}
    /\ facet_enable \in BOOLEAN
    /\ Len(calls) <= MaxCalls
    /\ handler \in Handlers
    /\ rpc \in {"idle", "to_query", "returned", "received", "rejected", "extracted",
                "select", "responded", "panicked"}
    /\ tq.outcome \in {"none", "returned", "panicked"}
    /\ select_calls \in 0..1
    /\ status \in {0, 200, 400, 500}
    /\ Len(log) <= 1
    /\ sanitizer \in {"query", "parser"}
    /\ sanitized = None \/ Len(sanitized[1]) >= Len(san_s)
    /\ extracted = None \/ extracted[1].ok \in BOOLEAN
    /\ Len(record) <= MaxFields
    /\ post_pc \in {"idle", "read_dir", "spawn", "join", "rollback", "finalize", "returned"}
    /\ Len(post_tasks) <= Len(save_dir.files)
    /\ post_joined \subseteq 1..Len(post_tasks)
    /\ post_result \in {"none", "Ok", "Err"}
    /\ crawler \in Crawlers
    /\ save_pc \in {"idle", "begin", "loop", "rollback", "returned"}
    /\ save_tx \in {"none", "open", "committed", "rolled_back"}
    /\ executed \subseteq 1..Len(batch)
    /\ store \subseteq executed
    /\ save_result \in {"none", "Ok", "Err"}
    /\ Len(solr_facet.counts) <= MaxBuckets
    /\ color = None \/ color[1] \in Range(Bands)

====
